---- MODULE Spec2Model ----
(***************************************************************************)
(* A model of the audio-analysis and clip-generation pipeline of           *)
(* m0_clipper (src/highlighter/analyzer.py, src/highlighter/processor.py,  *)
(* src/highlighter/gui/services/analysis_service.py).                      *)
(*                                                                         *)
(* Four specifications share the module's variables; each one drives one   *)
(* component and leaves the variables of the others at their idle values:  *)
(*   SpecDetect  - the point-based detector (crest-ceiling algorithm)      *)
(*   SpecClips   - OptimizedClipGenerator.generate_clips_parallel          *)
(*   SpecBatch   - BatchProcessor.process_batch and the per-video pipeline *)
(*   SpecService - AnalysisService start / stop / worker thread            *)
(*                                                                         *)
(* Decibel values are integers (whole dB); positions are whole seconds,    *)
(* the int(position) the detector works with.                              *)
(***************************************************************************)
EXTENDS Integers, Sequences, FiniteSets, TLC

VARIABLES
    \* ---- detector (StreamingAudioAnalysis / AudioAnalysis) ----
    det_pc,          \* "idle" | "running" | "done"
    use_streaming,   \* which of the two point-based algorithms runs
    decibel_threshold,
    start_point,
    end_point,
    position,        \* int(position) of the last sample consumed, -1 before the first
    rolling_window,  \* sequence of [max_db, avg_db], newest last
    captured,        \* _captured_result: position -> [decibel, tier]
    last_outcome,    \* what the last sample did: "none" | "below" | "suppressed" | a tier
    loud_used,       \* samples at or above the threshold consumed so far (bounds the input)
    script,          \* the scripted input of a scenario run (on = FALSE: free input)
    \* ---- clip generation (OptimizedClipGenerator) ----
    gen_pc,          \* "idle" | "start" | "collecting" | "draining" | "returned" | "raised"
    media_duration,  \* duration of the source media, in seconds
    task,            \* position -> the clip task submitted for that highlight
    completed_count,
    failed_count,
    \* ---- batch processing (BatchProcessor) ----
    batch_pc,        \* "idle" | "running" | "returned" | "aborted"
    max_workers,     \* BatchProcessor.max_workers
    ffmpeg_python,   \* FFMPEG_PYTHON_AVAILABLE
    job,             \* job id -> the state of that job's pipeline
    results,         \* the dict process_batch returns: job id -> entry
    batch_completed, \* completed_count of process_batch
    progress_callback,  \* whether process_batch was given a progress callback
    calls,           \* the invocations of the progress callback, oldest first
    \* ---- AnalysisService ----
    svc_pc,          \* "idle" | "up"
    is_analyzing,    \* state_manager.state.is_analyzing
    current_analysis_thread,  \* 0 (None) or the id of the thread started last
    worker,          \* thread id -> the state of that worker thread
    \* ---- audio processors (StreamingAudioProcessor / AudioProcessor) ----
    audio,           \* the decoded audio: one amplitude per frame
    sample_rate,     \* frames per second
    chunk_samples,   \* frames per chunk: chunk_duration * sample_rate
    s_pc,            \* streaming decibel_iter: "idle" | "running" | "done"
    s_offset,        \* stream_chunks' offset, in frames
    chunk,           \* the decoded chunk decibel_iter is working on (<<>>: none)
    chunk_offset,    \* the offset stream_chunks yielded with it, in frames
    seg_idx,         \* index i of the next segment of the chunk to be yielded
    s_items,         \* items the streaming decibel_iter has yielded
    chunk_log,       \* what stream_chunks did with each chunk, oldest first
    l_pc,            \* legacy decibel_iter: "idle" | "running" | "done"
    l_pos,           \* AudioProcessor._pos, in frames
    l_items,         \* items the legacy decibel_iter has yielded
    \* ---- the analyze command and the index file ----
    index_file,      \* index.json: "absent" or the JSON object export() wrote
    results_loaded,  \* what json.load made of the file ("none" before it ran)
    report,          \* the outcome lines the analyze command printed, oldest first
    output_file,     \* position -> the output path built for that event's clip
    ref_pc,          \* reference analysis: "idle" | "start" | "avg_done" | "done"
    ref_avg_db,      \* what get_avg_decibel returned
    ref_max_db,      \* what get_max_decibel returned
    \* ---- range-based detection (AudioAnalysis.dynamic_crest_ceiling_algorithm) ----
    t_from,          \* start of the open span; 0 means that no span is open
    t_to,            \* end of the span closed last
    loud_log         \* positions of the samples at or above the threshold, oldest first

det_vars == <<det_pc, use_streaming, decibel_threshold, start_point, end_point,
              position, rolling_window, captured, last_outcome, loud_used, script>>

clip_vars == <<gen_pc, media_duration, task, completed_count, failed_count>>

batch_vars == <<batch_pc, max_workers, ffmpeg_python, job, results, batch_completed,
                progress_callback, calls>>

svc_vars == <<svc_pc, is_analyzing, current_analysis_thread, worker>>

stream_vars == <<audio, sample_rate, chunk_samples, s_pc, s_offset, chunk, chunk_offset,
                 seg_idx, s_items, chunk_log, l_pc, l_pos, l_items>>

cli_vars == <<index_file, results_loaded, report, output_file, ref_pc, ref_avg_db, ref_max_db>>

range_vars == <<t_from, t_to, loud_log>>

vars == <<det_vars, clip_vars, batch_vars, svc_vars, stream_vars, cli_vars, range_vars>>

\* what the actions of one component leave alone
not_det_vars == <<clip_vars, batch_vars, svc_vars, stream_vars, cli_vars, range_vars>>

not_clip_vars == <<det_vars, batch_vars, svc_vars, stream_vars, cli_vars, range_vars>>

not_batch_vars == <<det_vars, clip_vars, svc_vars, stream_vars, cli_vars, range_vars>>

not_svc_vars == <<det_vars, clip_vars, batch_vars, stream_vars, cli_vars, range_vars>>

not_stream_vars == <<det_vars, clip_vars, batch_vars, svc_vars, cli_vars, range_vars>>

not_cli_vars == <<batch_vars, svc_vars, stream_vars, range_vars>>

not_range_vars == <<clip_vars, batch_vars, svc_vars, stream_vars, cli_vars>>

\* ---------------------------------------------------------------------
\* Bounds of the model
\* ---------------------------------------------------------------------
MaxPosition == 33
MaxLoudSamples == 4
MaxClips == 3
MaxJobs == 3
MaxBatchWorkers == 2
MaxHighlights == 5
MaxThreads == 3
MaxCallbackJobs == 2
MaxFrames == 5
\* length of a scenario run, in seconds
ScenarioSeconds == 120
\* SPLIT_FRAMES (1000 in processor.py), scaled down with the frame counts
SplitFrames == 2

\* ---------------------------------------------------------------------
\* Program constants of the detector
\* ---------------------------------------------------------------------
MIN_GAP_FLOOR == 30
SUSTAINED_THRESHOLD_DURATION == 3
ROLLING_WINDOW_SIZE == 5
SPIKE_MARGIN == 3
DYNAMIC_MARGIN == 6
DYNAMIC_MIN_WINDOW == 3

Abs(x) == IF x < 0 THEN -x ELSE x

Max2(a, b) == IF a >= b THEN a ELSE b

Min2(a, b) == IF a <= b THEN a ELSE b

RECURSIVE SumSeq(_)
SumSeq(s) == IF s = <<>> THEN 0 ELSE Head(s) + SumSeq(Tail(s))

\* analyzer.start_point = clip_length // 2
StartPointOf(clip_length) == clip_length \div 2

\* analyzer.end_point = clip_length - analyzer.start_point
EndPointOf(clip_length) == clip_length - StartPointOf(clip_length)

\* a gap that ignores the clip length
MutMinGap(sp, ep) == MIN_GAP_FLOOR

\* min_gap = max(30, self.start_point + self.end_point)
MinGap(sp, ep) == Max2(MIN_GAP_FLOOR, sp + ep)

\* A gap check that ignores the clip length (hard-coded 30 s).
MutAlreadyCaptured(cap, pos, sp, ep) ==
    \E existing_pos \in DOMAIN cap : Abs(existing_pos - pos) < MIN_GAP_FLOOR

\* _already_captured: some existing key is closer than min_gap
AlreadyCaptured(cap, pos, sp, ep) ==
    \E existing_pos \in DOMAIN cap : Abs(existing_pos - pos) < MinGap(sp, ep)

\* _add_highlight: self._captured_result[position] = highlight (a dict store:
\* an existing key is overwritten)
AddHighlight(cap, pos, decibel, tier) ==
    [p \in (DOMAIN cap) \cup {pos} |->
        IF p = pos THEN [decibel |-> decibel, tier |-> tier] ELSE cap[p]]

\* rolling_window.append(...); if len > rolling_window_size: pop(0)
PushWindow(w, entry) ==
    LET a == Append(w, entry)
    IN  IF Len(a) > ROLLING_WINDOW_SIZE THEN Tail(a) ELSE a

\* sustained_count = sum(1 for w in rolling_window if w['max_db'] >= threshold)
SustainedCount(w, thr) ==
    Cardinality({i \in 1..Len(w) : w[i].max_db >= thr})

\* max_decibel >= rolling_avg + 6, rolling_avg = sum(avg_db) / len(window);
\* both sides multiplied by len(window) to stay in the integers
AboveRollingAvg(w, max_db) ==
    max_db * Len(w) >= SumSeq([i \in 1..Len(w) |-> w[i].avg_db]) + DYNAMIC_MARGIN * Len(w)

\* a chain whose spike test uses the margin of the dynamic test
MutSpikeClassify(w, max_db, thr) ==
    IF SustainedCount(w, thr) >= SUSTAINED_THRESHOLD_DURATION THEN "Sustained"
    ELSE IF max_db >= thr + DYNAMIC_MARGIN THEN "Spike"
    ELSE IF Len(w) >= DYNAMIC_MIN_WINDOW /\ AboveRollingAvg(w, max_db) THEN "Dynamic"
    ELSE "none"

\* a chain that tests the spike before the sustained moment
MutClassify(w, max_db, thr) ==
    IF max_db >= thr + SPIKE_MARGIN THEN "Spike"
    ELSE IF SustainedCount(w, thr) >= SUSTAINED_THRESHOLD_DURATION THEN "Sustained"
    ELSE IF Len(w) >= DYNAMIC_MIN_WINDOW /\ AboveRollingAvg(w, max_db) THEN "Dynamic"
    ELSE "none"

\* The classification of a candidate sample (at or above threshold, not
\* gap-suppressed): the if / elif / elif chain of the two algorithms.
Classify(w, max_db, thr) ==
    IF SustainedCount(w, thr) >= SUSTAINED_THRESHOLD_DURATION THEN "Sustained"
    ELSE IF max_db >= thr + SPIKE_MARGIN THEN "Spike"
    ELSE IF Len(w) >= DYNAMIC_MIN_WINDOW /\ AboveRollingAvg(w, max_db) THEN "Dynamic"
    ELSE "none"

\* What one sample does to the detector.
Outcome(w, cap, pos, max_db, thr, sp, ep) ==
    IF max_db < thr THEN "below"
    ELSE IF AlreadyCaptured(cap, pos, sp, ep) THEN "suppressed"
    ELSE Classify(w, max_db, thr)

Tiers == {"Sustained", "Spike", "Dynamic"}

\* ---------------------------------------------------------------------
\* Inputs of the detector
\* ---------------------------------------------------------------------
DetectClipLengths == {30, 32}
Thresholds == {-10}
\* loudness of a sample relative to the threshold: quiet, exactly at the
\* threshold, exactly at the spike margin
DbOffsets == {-20, 0, 3}
\* the input is silent between the two stretches in which it may be loud
QuietStretch == 6..26

\* One item of decibel_iter: the streaming processor yields a single reading
\* ([decibels[i]], so max = avg); the legacy processor yields the readings of
\* one second (max >= avg).
SamplesOf(streaming, thr) ==
    IF streaming
    THEN {[max_db |-> thr + o, avg_db |-> thr + o] : o \in DbOffsets}
    ELSE {s \in [max_db : {thr + o : o \in DbOffsets}, avg_db : {thr + o : o \in DbOffsets}] :
              s.avg_db <= s.max_db}

\* int(position) of the next item: the legacy processor advances one second
\* per item; the streaming processor yields several readings per second.
NextPositions(streaming, pos) ==
    IF streaming /\ pos >= 0 THEN {pos, pos + 1} ELSE {pos + 1}

NoScript == [on |-> FALSE, starts |-> {}, span |-> 0, loud |-> 0, quiet |-> 0]

DetInit ==
    /\ det_pc = "running"
    /\ use_streaming \in BOOLEAN
    /\ decibel_threshold \in Thresholds
    /\ \E cl \in DetectClipLengths :
          /\ start_point = StartPointOf(cl)
          /\ end_point = EndPointOf(cl)
    /\ position = -1
    /\ rolling_window = <<>>
    /\ captured = <<>>
    /\ last_outcome = "none"
    /\ loud_used = 0
    /\ script = NoScript

DetIdle ==
    /\ det_pc = "idle"
    /\ use_streaming = TRUE
    /\ decibel_threshold = -5
    /\ start_point = 20
    /\ end_point = 20
    /\ position = -1
    /\ rolling_window = <<>>
    /\ captured = <<>>
    /\ last_outcome = "none"
    /\ loud_used = 0
    /\ script = NoScript

\* The body of the loop for one item (pos = int(position), s = its max / avg):
\* the window is updated, the sample is classified, an event may be added.
Consume(pos, s) ==
    LET w == PushWindow(rolling_window, s)
        o == Outcome(w, captured, pos, s.max_db, decibel_threshold, start_point, end_point)
    IN  /\ position' = pos
        /\ rolling_window' = w
        /\ last_outcome' = o
        /\ captured' = IF o \in Tiers
                       THEN AddHighlight(captured, pos, s.max_db, o)
                       ELSE captured

\* One iteration of `for decibel_data, position in decibel_iter()`.
ProcessSample ==
    /\ det_pc = "running"
    /\ ~script.on
    /\ \E pos \in NextPositions(use_streaming, position), s \in SamplesOf(use_streaming, decibel_threshold) :
          /\ pos <= MaxPosition
          /\ s.max_db >= decibel_threshold => loud_used < MaxLoudSamples /\ pos \notin QuietStretch
          /\ loud_used' = IF s.max_db >= decibel_threshold THEN loud_used + 1 ELSE loud_used
          /\ Consume(pos, s)
    /\ UNCHANGED <<det_pc, use_streaming, decibel_threshold, start_point, end_point, script>>
    /\ UNCHANGED not_det_vars

\* decibel_iter is exhausted: the loop ends.
EndOfStream ==
    /\ det_pc = "running"
    /\ position >= 0
    /\ det_pc' = "done"
    /\ UNCHANGED <<use_streaming, decibel_threshold, start_point, end_point,
                   position, rolling_window, captured, last_outcome, loud_used, script>>
    /\ UNCHANGED not_det_vars

DetNext == ProcessSample \/ EndOfStream

\* ---------------------------------------------------------------------
\* Scenario runs of the detector: one reading per second (max = avg), loud
\* during the scripted spans and quiet everywhere else
\* ---------------------------------------------------------------------
\* loudness of the spans, relative to the threshold
LoudOffsets == {0, 1, 3, 5}
\* loudness outside the spans, relative to the threshold
QuietOffsets == {-30, -1}

\* two spans of 3 s at t = 10 s and t = 70 s, or a single sample at t = 0;
\* loud and quiet are relative to the threshold
Scripts ==
    {[on |-> TRUE, starts |-> {10, 70}, span |-> 3, loud |-> l, quiet |-> q] :
        l \in LoudOffsets, q \in QuietOffsets}
    \cup
    {[on |-> TRUE, starts |-> {0}, span |-> 1, loud |-> l, quiet |-> q] :
        l \in LoudOffsets, q \in QuietOffsets}

ScriptedDb(pos) ==
    IF \E st \in script.starts : pos >= st /\ pos < st + script.span
    THEN decibel_threshold + script.loud
    ELSE decibel_threshold + script.quiet

ScenarioInit ==
    /\ det_pc = "running"
    /\ use_streaming \in BOOLEAN
    /\ decibel_threshold \in Thresholds
    /\ \E cl \in DetectClipLengths :
          /\ start_point = StartPointOf(cl)
          /\ end_point = EndPointOf(cl)
    /\ position = -1
    /\ rolling_window = <<>>
    /\ captured = <<>>
    /\ last_outcome = "none"
    /\ loud_used = 0
    /\ script \in Scripts

\* One iteration of the loop on the scripted item of the next second.
PlayScript ==
    /\ det_pc = "running"
    /\ script.on
    /\ position + 1 < ScenarioSeconds
    /\ Consume(position + 1, [max_db |-> ScriptedDb(position + 1),
                              avg_db |-> ScriptedDb(position + 1)])
    /\ UNCHANGED <<det_pc, use_streaming, decibel_threshold, start_point, end_point,
                   loud_used, script>>
    /\ UNCHANGED not_det_vars

\* The scripted input is exhausted: the loop ends.
ScriptEnds ==
    /\ det_pc = "running"
    /\ script.on
    /\ position + 1 >= ScenarioSeconds
    /\ det_pc' = "done"
    /\ UNCHANGED <<use_streaming, decibel_threshold, start_point, end_point,
                   position, rolling_window, captured, last_outcome, loud_used, script>>
    /\ UNCHANGED not_det_vars

ScenarioNext == PlayScript \/ ScriptEnds

\* =====================================================================
\* Clip generation: OptimizedClipGenerator.generate_clips_parallel
\* =====================================================================
CLIP_WORKERS == 4
CLIP_TIMEOUT == 60
BATCH_TIMEOUT == 600
MIN_CLIP_BYTES == 1024
\* the output file does not exist
ABSENT == -1

\* start = max(0, int(position) - start_point), without the clamp at 0
MutClipStart(pos, sp) == pos - sp

\* start = max(0, int(position) - start_point)
ClipStart(pos, sp) == Max2(0, pos - sp)

\* end = int(position) + end_point
ClipEnd(pos, ep, duration) == pos + ep

\* a size check that accepts a file of exactly 1024 bytes
MutClipSucceeded(returncode, size) ==
    returncode = 0 /\ size # ABSENT /\ size >= MIN_CLIP_BYTES

\* result.returncode == 0 and os.path.exists(output_file)
\*                        and os.path.getsize(output_file) > 1024
ClipSucceeded(returncode, size) ==
    returncode = 0 /\ size # ABSENT /\ size > MIN_CLIP_BYTES

\* a timeout that is reported as a generated clip
MutRunResult(kind, returncode, size) ==
    IF kind = "exit" THEN ClipSucceeded(returncode, size) ELSE TRUE

\* The value _generate_single_clip returns: the exit / size check when the
\* process exited; False from `except subprocess.TimeoutExpired` and from
\* `except Exception` (the process could not be started).
RunResult(kind, returncode, size) ==
    IF kind = "exit" THEN ClipSucceeded(returncode, size) ELSE FALSE

\* a timeout that leaves the trim process running
MutProcAfterTimeout(proc) == proc

\* subprocess.run(..., timeout=60) kills the child before it raises
\* TimeoutExpired.
ProcAfterTimeout(proc) == "killed"

QueuedTask ==
    [st |-> "queued", ss |-> 0, to |-> 0, proc |-> "none", kind |-> "none",
     returncode |-> 0, size |-> ABSENT, result |-> FALSE, yielded |-> FALSE]

Positions == DOMAIN task

Running == {p \in Positions : task[p].st = "running"}

Queued == {p \in Positions : task[p].st = "queued"}

Done == {p \in Positions : task[p].st = "done"}

Yielded == {p \in Positions : task[p].yielded}

\* trim subprocesses that are alive
AliveTrims == {p \in Positions : task[p].proc = "alive"}

\* ---- inputs of a clip-generation run ----
\* total clip lengths, inside the range validate_clip_length accepts
ClipLengths == {5, 31}
FirstPositions == {0, 7}
Tails == {1, 40}
ExitCodes == {0, 1}
FileSizes == {ABSENT, MIN_CLIP_BYTES, MIN_CLIP_BYTES + 1}

\* n events, the first at `first`, each minGap after the one before: a
\* result the detector can leave behind
CapturedAt(first, n, gap, thr) ==
    [p \in {first + k * gap : k \in 0..(n - 1)} |-> [decibel |-> thr, tier |-> "Spike"]]

\* the position of the last of these events (of the first sample if none)
LastPosition(first, n, gap) == IF n = 0 THEN first ELSE first + (n - 1) * gap

\* The last sample lies `tail - 1` seconds after the last event: the media
\* ends right after it, or well after it.
ClipInit ==
    /\ det_pc = "done"
    /\ use_streaming = TRUE
    /\ decibel_threshold = -5
    /\ \E cl \in ClipLengths, first \in FirstPositions, n \in 0..MaxClips, tail \in Tails :
          /\ start_point = StartPointOf(cl)
          /\ end_point = EndPointOf(cl)
          /\ captured = CapturedAt(first, n, MinGap(StartPointOf(cl), EndPointOf(cl)), -5)
          /\ media_duration = LastPosition(first, n, MinGap(StartPointOf(cl), EndPointOf(cl))) + tail
          /\ position = media_duration - 1
    /\ rolling_window = <<>>
    /\ last_outcome = "none"
    /\ loud_used = 0
    /\ script = NoScript
    /\ gen_pc = "start"
    /\ task = <<>>
    /\ completed_count = 0
    /\ failed_count = 0

ClipIdle ==
    /\ gen_pc = "idle"
    /\ media_duration = 0
    /\ task = <<>>
    /\ completed_count = 0
    /\ failed_count = 0

\* generate_all_highlights with an empty result: returns (0, 0) and starts
\* nothing.
NoHighlights ==
    /\ gen_pc = "start"
    /\ DOMAIN captured = {}
    /\ gen_pc' = "returned"
    /\ UNCHANGED <<media_duration, task, completed_count, failed_count>>
    /\ UNCHANGED not_clip_vars

\* generate_clips_parallel, lines 327-340: one future per highlight is
\* submitted to the pool, the counters start at 0.
SubmitClips ==
    /\ gen_pc = "start"
    /\ DOMAIN captured # {}
    /\ task' = [p \in DOMAIN captured |-> QueuedTask]
    /\ completed_count' = 0
    /\ failed_count' = 0
    /\ gen_pc' = "collecting"
    /\ UNCHANGED media_duration
    /\ UNCHANGED not_clip_vars

PoolOpen == gen_pc \in {"collecting", "draining"}

\* A pool worker takes the oldest queued task (_generate_single_clip up to
\* subprocess.run): the command line is built and the trim process starts.
StartClip(p) ==
    /\ PoolOpen
    /\ p \in Queued
    /\ \A q \in Queued : p <= q
    /\ Cardinality(Running) < CLIP_WORKERS
    /\ task' = [task EXCEPT ![p] =
                   [@ EXCEPT !.st = "running",
                             !.ss = ClipStart(p, start_point),
                             !.to = ClipEnd(p, end_point, media_duration),
                             !.proc = "alive"]]
    /\ UNCHANGED <<gen_pc, media_duration, completed_count, failed_count>>
    /\ UNCHANGED not_clip_vars

\* subprocess.run raises before a process exists (ffmpeg not found):
\* `except Exception` returns False.
SpawnFails(p) ==
    /\ PoolOpen
    /\ p \in Queued
    /\ \A q \in Queued : p <= q
    /\ Cardinality(Running) < CLIP_WORKERS
    /\ task' = [task EXCEPT ![p] =
                   [@ EXCEPT !.st = "done",
                             !.ss = ClipStart(p, start_point),
                             !.to = ClipEnd(p, end_point, media_duration),
                             !.kind = "spawn_error",
                             !.result = RunResult("spawn_error", 0, ABSENT)]]
    /\ UNCHANGED <<gen_pc, media_duration, completed_count, failed_count>>
    /\ UNCHANGED not_clip_vars

\* The trim process exits within the timeout; the return code and the
\* output file decide the result.
ClipExit(p) ==
    /\ p \in Running
    /\ \E rc \in ExitCodes, size \in FileSizes :
          /\ rc # 0 => size # MIN_CLIP_BYTES
          /\ task' = [task EXCEPT ![p] =
                      [@ EXCEPT !.st = "done", !.proc = "exited", !.kind = "exit",
                                !.returncode = rc, !.size = size,
                                !.result = RunResult("exit", rc, size)]]
    /\ UNCHANGED <<gen_pc, media_duration, completed_count, failed_count>>
    /\ UNCHANGED not_clip_vars

\* The trim process is still running after 60 s: subprocess.run kills it and
\* raises TimeoutExpired, which _generate_single_clip turns into False.
ClipTimeout(p) ==
    /\ p \in Running
    /\ task' = [task EXCEPT ![p] =
                   [@ EXCEPT !.st = "done", !.proc = ProcAfterTimeout(@), !.kind = "timeout",
                             !.result = RunResult("timeout", 0, ABSENT)]]
    /\ UNCHANGED <<gen_pc, media_duration, completed_count, failed_count>>
    /\ UNCHANGED not_clip_vars

\* One iteration of `for future in as_completed(...)`: a finished future is
\* yielded and tallied.
CollectClip(p) ==
    /\ gen_pc = "collecting"
    /\ p \in Done
    /\ ~task[p].yielded
    /\ task' = [task EXCEPT ![p].yielded = TRUE]
    /\ completed_count' = IF task[p].result THEN completed_count + 1 ELSE completed_count
    /\ failed_count' = IF task[p].result THEN failed_count ELSE failed_count + 1
    /\ UNCHANGED <<gen_pc, media_duration>>
    /\ UNCHANGED not_clip_vars

\* as_completed(..., timeout=600): the deadline passes while a future is
\* unfinished and as_completed raises TimeoutError outside the loop's try.
\* Leaving the `with` block waits for the pool (shutdown(wait=True)).
BatchDeadline ==
    /\ gen_pc = "collecting"
    /\ Done # Positions
    /\ gen_pc' = "draining"
    /\ UNCHANGED <<media_duration, task, completed_count, failed_count>>
    /\ UNCHANGED not_clip_vars

\* The pool has drained; `except Exception: ... raise` re-raises the
\* TimeoutError to the caller.
RaiseTimeout ==
    /\ gen_pc = "draining"
    /\ Done = Positions
    /\ gen_pc' = "raised"
    /\ UNCHANGED <<media_duration, task, completed_count, failed_count>>
    /\ UNCHANGED not_clip_vars

\* Every future was yielded: return completed_count, failed_count.
ReturnCounts ==
    /\ gen_pc = "collecting"
    /\ Yielded = Positions
    /\ gen_pc' = "returned"
    /\ UNCHANGED <<media_duration, task, completed_count, failed_count>>
    /\ UNCHANGED not_clip_vars

\* analyze: the outcome lines printed from the counts generate_all_highlights
\* returned
OutcomeLines(completed, failed) ==
    (IF failed > 0 THEN <<"clips failed to generate">> ELSE <<>>)
    \o (IF completed > 0
        THEN <<"Generated highlight clips successfully">>
        ELSE <<"No highlights found">>)

\* analyze, after generate_all_highlights returned: "Report results". An
\* exception of generate_all_highlights leaves the command before this.
ReportResults ==
    /\ gen_pc = "returned"
    /\ report = <<>>
    /\ report' = OutcomeLines(completed_count, failed_count)
    /\ UNCHANGED <<index_file, results_loaded, output_file, ref_pc, ref_avg_db, ref_max_db>>
    /\ UNCHANGED <<det_vars, clip_vars, not_cli_vars>>

ClipNext ==
    \/ NoHighlights
    \/ SubmitClips
    \/ \E p \in Positions : StartClip(p)
    \/ \E p \in Positions : SpawnFails(p)
    \/ \E p \in Positions : ClipExit(p)
    \/ \E p \in Positions : ClipTimeout(p)
    \/ \E p \in Positions : CollectClip(p)
    \/ BatchDeadline
    \/ RaiseTimeout
    \/ ReturnCounts
    \/ ReportResults

\* =====================================================================
\* Batch processing: BatchProcessor.process_batch and _process_single_video
\* =====================================================================
\* In this specification the clip tasks of a job are counted, not told
\* apart: clip_q tasks wait in the job's pool, trims trim processes are alive
\* (one per busy worker of the job's pool).
JobIds == DOMAIN job

QueuedJob ==
    [phase |-> "queued", outcome |-> "none", found |-> 0, clip_q |-> 0, trims |-> 0]

ActivePhases == {"extract_py", "extract_sub", "hung", "analysing", "clipping", "draining"}

\* jobs a pool worker is executing
RunningJobs == {j \in JobIds : job[j].phase \in ActivePhases}

QueuedJobs == {j \in JobIds : job[j].phase = "queued"}

RECURSIVE SumTrims(_)
SumTrims(js) ==
    IF js = {} THEN 0
    ELSE LET j == CHOOSE x \in js : TRUE IN job[j].trims + SumTrims(js \ {j})

\* the trim processes alive over all jobs
TotalTrims == SumTrims(JobIds)

BatchInit ==
    /\ batch_pc = "running"
    /\ max_workers \in 1..MaxBatchWorkers
    /\ ffmpeg_python \in BOOLEAN
    /\ \E n \in 1..MaxJobs : job = [j \in 1..n |-> QueuedJob]
    /\ results = <<>>
    /\ batch_completed = 0
    /\ progress_callback = FALSE
    /\ calls = <<>>

BatchIdle ==
    /\ batch_pc = "idle"
    /\ max_workers = 3
    /\ ffmpeg_python = TRUE
    /\ job = <<>>
    /\ results = <<>>
    /\ batch_completed = 0
    /\ progress_callback = FALSE
    /\ calls = <<>>

BatchFrame ==
    UNCHANGED <<batch_pc, max_workers, ffmpeg_python, results, batch_completed,
                progress_callback, calls>>

\* a pool that starts a job whatever the number of busy workers
MutJobStart(j) ==
    /\ j \in QueuedJobs
    /\ job' = [job EXCEPT ![j].phase = IF ffmpeg_python THEN "extract_py" ELSE "extract_sub"]
    /\ BatchFrame
    /\ UNCHANGED not_batch_vars

\* A worker of ThreadPoolExecutor(max_workers) takes the oldest queued job:
\* _process_single_video starts with the audio extraction.
JobStart(j) ==
    /\ j \in QueuedJobs
    /\ \A k \in QueuedJobs : j <= k
    /\ Cardinality(RunningJobs) < max_workers
    /\ job' = [job EXCEPT ![j].phase = IF ffmpeg_python THEN "extract_py" ELSE "extract_sub"]
    /\ BatchFrame
    /\ UNCHANGED not_batch_vars

\* extract_audio_from_video, ffmpeg-python branch: run() returns.
ExtractPyOk(j) ==
    /\ j \in JobIds
    /\ job[j].phase = "extract_py"
    /\ job' = [job EXCEPT ![j].phase = "analysing"]
    /\ BatchFrame
    /\ UNCHANGED not_batch_vars

\* ffmpeg-python raises: the subprocess fallback is tried.
ExtractPyFails(j) ==
    /\ j \in JobIds
    /\ job[j].phase = "extract_py"
    /\ job' = [job EXCEPT ![j].phase = "extract_sub"]
    /\ BatchFrame
    /\ UNCHANGED not_batch_vars

\* subprocess.run(cmd, capture_output=True, text=True, check=True) returns.
ExtractSubOk(j) ==
    /\ j \in JobIds
    /\ job[j].phase = "extract_sub"
    /\ job' = [job EXCEPT ![j].phase = "analysing"]
    /\ BatchFrame
    /\ UNCHANGED not_batch_vars

\* CalledProcessError or FileNotFoundError: RuntimeError leaves the job.
ExtractSubFails(j) ==
    /\ j \in JobIds
    /\ job[j].phase = "extract_sub"
    /\ job' = [job EXCEPT ![j].phase = "raised", ![j].outcome = "raised"]
    /\ BatchFrame
    /\ UNCHANGED not_batch_vars

\* The extraction process never exits. Neither ffmpeg.run nor subprocess.run
\* is given a timeout, so nothing ends the wait.
ExtractHangs(j) ==
    /\ j \in JobIds
    /\ job[j].phase \in {"extract_py", "extract_sub"}
    /\ job' = [job EXCEPT ![j].phase = "hung"]
    /\ BatchFrame
    /\ UNCHANGED not_batch_vars

\* The processor is opened, the detector runs and the index is exported; the
\* number of captured events is the detector's. No events: generate_all_highlights
\* returns (0, 0). Otherwise one clip task per event is submitted to the job's
\* ThreadPoolExecutor(max_workers=4): its workers take the first tasks and
\* start their trims, the other tasks wait in the pool's queue.
Analyse(j) ==
    /\ j \in JobIds
    /\ job[j].phase = "analysing"
    /\ \E n \in {0, MaxHighlights} :
          job' = [job EXCEPT ![j].found = n,
                             ![j].clip_q = n - Min2(n, CLIP_WORKERS),
                             ![j].trims = Min2(n, CLIP_WORKERS),
                             ![j].phase = IF n = 0 THEN "returned" ELSE "clipping",
                             ![j].outcome = IF n = 0 THEN "returned" ELSE "none"]
    /\ BatchFrame
    /\ UNCHANGED not_batch_vars

\* Opening or decoding the audio raises (unreadable media).
AnalyseFails(j) ==
    /\ j \in JobIds
    /\ job[j].phase = "analysing"
    /\ job' = [job EXCEPT ![j].phase = "raised", ![j].outcome = "raised"]
    /\ BatchFrame
    /\ UNCHANGED not_batch_vars

\* A trim process exits, or is killed at its 60 s timeout; the pool worker
\* that ran it takes the next waiting task, if there is one, and starts its
\* trim.
TrimEnd(j) ==
    /\ j \in JobIds
    /\ job[j].trims > 0
    /\ job' = IF job[j].clip_q > 0
              THEN [job EXCEPT ![j].clip_q = @ - 1]
              ELSE [job EXCEPT ![j].trims = @ - 1]
    /\ BatchFrame
    /\ UNCHANGED not_batch_vars

\* as_completed(timeout=600) of the job's clip generation gives up.
ClipsDeadline(j) ==
    /\ j \in JobIds
    /\ job[j].phase = "clipping"
    /\ job[j].clip_q + job[j].trims > 0
    /\ job' = [job EXCEPT ![j].phase = "draining"]
    /\ BatchFrame
    /\ UNCHANGED not_batch_vars

\* All clips are tallied: _process_single_video returns its dict.
JobReturns(j) ==
    /\ j \in JobIds
    /\ job[j].phase = "clipping"
    /\ job[j].clip_q = 0
    /\ job[j].trims = 0
    /\ job' = [job EXCEPT ![j].phase = "returned", ![j].outcome = "returned"]
    /\ BatchFrame
    /\ UNCHANGED not_batch_vars

\* The pool has drained and the TimeoutError leaves the job.
JobRaisesTimeout(j) ==
    /\ j \in JobIds
    /\ job[j].phase = "draining"
    /\ job[j].clip_q = 0
    /\ job[j].trims = 0
    /\ job' = [job EXCEPT ![j].phase = "raised", ![j].outcome = "raised"]
    /\ BatchFrame
    /\ UNCHANGED not_batch_vars

\* results[job.job_id] for a finished future
ResultEntry(outcome) ==
    IF outcome = "returned"
    THEN [status |-> "completed", error |-> "none"]
    ELSE [status |-> "failed", error |-> "message"]

\* a callback that is given the count before it was incremented
MutCallbackArgs(count, total, j, entry) ==
    [completed |-> count - 1, total |-> total, job_id |-> j, result |-> entry]

\* progress_callback(completed_count, len(jobs), job.job_id, results[job.job_id])
CallbackArgs(count, total, j, entry) ==
    [completed |-> count, total |-> total, job_id |-> j, result |-> entry]

\* a loop without the try / except around future.result()
MutCollect(j) ==
    /\ batch_pc = "running"
    /\ j \in JobIds
    /\ job[j].phase \in {"returned", "raised"}
    /\ batch_completed' = batch_completed + 1
    /\ IF job[j].phase = "raised"
       THEN /\ batch_pc' = "aborted"
            /\ UNCHANGED <<results, job, calls>>
       ELSE /\ results' = [k \in (DOMAIN results) \cup {j} |->
                              IF k = j THEN ResultEntry(job[j].outcome) ELSE results[k]]
            /\ job' = [job EXCEPT ![j].phase = "collected"]
            /\ calls' = IF progress_callback
                        THEN Append(calls, CallbackArgs(batch_completed + 1, Cardinality(JobIds),
                                                        j, ResultEntry(job[j].outcome)))
                        ELSE calls
            /\ UNCHANGED batch_pc
    /\ UNCHANGED <<max_workers, ffmpeg_python, progress_callback>>
    /\ UNCHANGED not_batch_vars

\* One iteration of `for future in as_completed(future_to_job)`: the entry
\* of the finished job is stored, whether future.result() returned or raised,
\* and the progress callback, if one was given, is called with it.
Collect(j) ==
    /\ batch_pc = "running"
    /\ j \in JobIds
    /\ job[j].phase \in {"returned", "raised"}
    /\ batch_completed' = batch_completed + 1
    /\ results' = [k \in (DOMAIN results) \cup {j} |->
                      IF k = j THEN ResultEntry(job[j].outcome) ELSE results[k]]
    /\ job' = [job EXCEPT ![j].phase = "collected"]
    /\ calls' = IF progress_callback
                THEN Append(calls, CallbackArgs(batch_completed', Cardinality(JobIds),
                                                j, results'[j]))
                ELSE calls
    /\ UNCHANGED <<batch_pc, max_workers, ffmpeg_python, progress_callback>>
    /\ UNCHANGED not_batch_vars

\* Every future was yielded: process_batch returns results.
BatchReturn ==
    /\ batch_pc = "running"
    /\ \A j \in JobIds : job[j].phase = "collected"
    /\ batch_pc' = "returned"
    /\ UNCHANGED <<max_workers, ffmpeg_python, job, results, batch_completed,
                   progress_callback, calls>>
    /\ UNCHANGED not_batch_vars

BatchNext ==
    \/ \E j \in JobIds : JobStart(j)
    \/ \E j \in JobIds : ExtractPyOk(j)
    \/ \E j \in JobIds : ExtractPyFails(j)
    \/ \E j \in JobIds : ExtractSubOk(j)
    \/ \E j \in JobIds : ExtractSubFails(j)
    \/ \E j \in JobIds : ExtractHangs(j)
    \/ \E j \in JobIds : Analyse(j)
    \/ \E j \in JobIds : AnalyseFails(j)
    \/ \E j \in JobIds : TrimEnd(j)
    \/ \E j \in JobIds : ClipsDeadline(j)
    \/ \E j \in JobIds : JobReturns(j)
    \/ \E j \in JobIds : JobRaisesTimeout(j)
    \/ \E j \in JobIds : Collect(j)
    \/ BatchReturn

\* =====================================================================
\* AnalysisService: start_highlight_analysis, stop_analysis and the worker
\* thread _run_highlight_analysis
\* =====================================================================
ThreadIds == DOMAIN worker

\* threads for which is_alive() holds
Alive == {t \in ThreadIds : worker[t].pc # "dead"}

NewWorker ==
    [pc |-> "extract", stopped |-> FALSE, launched |-> 0]

SvcInit ==
    /\ svc_pc = "up"
    /\ is_analyzing = FALSE
    /\ current_analysis_thread = 0
    /\ worker = <<>>

SvcIdle ==
    /\ svc_pc = "idle"
    /\ is_analyzing = FALSE
    /\ current_analysis_thread = 0
    /\ worker = <<>>

\* start_highlight_analysis while is_analyzing: returns False at once.
StartRefused ==
    /\ svc_pc = "up"
    /\ is_analyzing
    /\ UNCHANGED svc_vars
    /\ UNCHANGED not_svc_vars

\* validate_current_state reports issues: ValidationError, and the handler
\* calls set_analysis_state(False).
StartInvalid ==
    /\ svc_pc = "up"
    /\ ~is_analyzing
    /\ is_analyzing' = FALSE
    /\ UNCHANGED <<svc_pc, current_analysis_thread, worker>>
    /\ UNCHANGED not_svc_vars

\* set_analysis_state(True), then a daemon thread running
\* _run_highlight_analysis is created and started.
StartHighlight ==
    /\ svc_pc = "up"
    /\ ~is_analyzing
    /\ Len(worker) < MaxThreads
    /\ is_analyzing' = TRUE
    /\ worker' = Append(worker, NewWorker)
    /\ current_analysis_thread' = Len(worker) + 1
    /\ UNCHANGED svc_pc
    /\ UNCHANGED not_svc_vars

\* stop_analysis: if the thread started last is alive, the state is marked
\* as not analyzing; the thread itself is not told anything.
StopAnalysis ==
    /\ svc_pc = "up"
    /\ IF current_analysis_thread # 0 /\ current_analysis_thread \in Alive
       THEN /\ is_analyzing' = FALSE
            /\ worker' = [worker EXCEPT ![current_analysis_thread].stopped = TRUE]
       ELSE UNCHANGED <<is_analyzing, worker>>
    /\ UNCHANGED <<svc_pc, current_analysis_thread>>
    /\ UNCHANGED not_svc_vars

\* The worker calls extract_audio_from_video: the ffmpeg process starts.
WorkerExtract(t) ==
    /\ t \in ThreadIds
    /\ worker[t].pc = "extract"
    /\ worker' = [worker EXCEPT ![t].pc = "extracting", ![t].launched = @ + 1]
    /\ UNCHANGED <<svc_pc, is_analyzing, current_analysis_thread>>
    /\ UNCHANGED not_svc_vars

\* The extraction returns the audio path and the analyzer is built.
WorkerExtractOk(t) ==
    /\ t \in ThreadIds
    /\ worker[t].pc = "extracting"
    /\ worker' = [worker EXCEPT ![t].pc = "find"]
    /\ UNCHANGED <<svc_pc, is_analyzing, current_analysis_thread>>
    /\ UNCHANGED not_svc_vars

\* The extraction raises RuntimeError: the except branch runs.
WorkerExtractFails(t) ==
    /\ t \in ThreadIds
    /\ worker[t].pc = "extracting"
    /\ worker' = [worker EXCEPT ![t].pc = "finally"]
    /\ UNCHANGED <<svc_pc, is_analyzing, current_analysis_thread>>
    /\ UNCHANGED not_svc_vars

\* audio_analyzer.find_highlights(...): neither analysis class defines
\* find_highlights, so the call raises AttributeError and the except branch
\* runs.
WorkerFindHighlights(t) ==
    /\ t \in ThreadIds
    /\ worker[t].pc = "find"
    /\ worker' = [worker EXCEPT ![t].pc = "finally"]
    /\ UNCHANGED <<svc_pc, is_analyzing, current_analysis_thread>>
    /\ UNCHANGED not_svc_vars

\* a worker that ends without resetting the analysis state
MutWorkerFinally(t) ==
    /\ t \in ThreadIds
    /\ worker[t].pc = "finally"
    /\ worker' = [worker EXCEPT ![t].pc = "dead"]
    /\ UNCHANGED <<svc_pc, is_analyzing, current_analysis_thread>>
    /\ UNCHANGED not_svc_vars

\* finally: set_analysis_state(False); the thread ends.
WorkerFinally(t) ==
    /\ t \in ThreadIds
    /\ worker[t].pc = "finally"
    /\ is_analyzing' = FALSE
    /\ worker' = [worker EXCEPT ![t].pc = "dead"]
    /\ UNCHANGED <<svc_pc, current_analysis_thread>>
    /\ UNCHANGED not_svc_vars

SvcNext ==
    \/ StartRefused
    \/ StartInvalid
    \/ StartHighlight
    \/ StopAnalysis
    \/ \E t \in ThreadIds : WorkerExtract(t)
    \/ \E t \in ThreadIds : WorkerExtractOk(t)
    \/ \E t \in ThreadIds : WorkerExtractFails(t)
    \/ \E t \in ThreadIds : WorkerFindHighlights(t)
    \/ \E t \in ThreadIds : WorkerFinally(t)

\* =====================================================================
\* Audio processors: StreamingAudioProcessor.stream_chunks / decibel_iter
\* and AudioProcessor.decibel_iter
\* =====================================================================
\* Time is counted in frames (1 / sample_rate s). The position of an item is
\* kept in units of 1 / (sample_rate * SplitFrames) s, in which the positions
\* both processors compute are whole numbers.
SILENCE_DB == -60

RECURSIVE GCD(_, _)
GCD(a, b) == IF b = 0 THEN a ELSE GCD(b, a % b)

\* seq[from + 1 .. from + n], cut at the end of seq (a numpy slice)
Slice(seq, from, n) ==
    [i \in 1..Max2(0, Min2(n, Len(seq) - from)) |-> seq[from + i]]

\* np.array_split(a, n)[i]: the first len(a) % n parts have one element more
ArraySplit(a, n, i) ==
    LET q == Len(a) \div n
        r == Len(a) % n
    IN  Slice(a, i * q + Min2(i, r), IF i < r THEN q + 1 ELSE q)

\* np.mean(segment ** 2), kept as the reduced fraction num / den. The mean of
\* an empty array is NaN, kept as 0 / 0.
MeanSquare(segment) ==
    LET sq == SumSeq([i \in 1..Len(segment) |-> segment[i] * segment[i]])
    IN  IF Len(segment) = 0 THEN [num |-> 0, den |-> 0]
        ELSE [num |-> sq \div GCD(sq, Len(segment)),
              den |-> Len(segment) \div GCD(sq, Len(segment))]

\* rms > 0, which is False for NaN
RmsPositive(ms) == ms.den # 0 /\ ms.num > 0

\* A reading. silent: the constant -60.0 was assigned; otherwise the reading is
\* 20 * log10(rms) = 10 * log10(num / den), which is -infinity for num = 0 and
\* NaN for 0 / 0.
Reading(ms, guarded) ==
    IF guarded /\ ~RmsPositive(ms)
    THEN [silent |-> TRUE, db |-> SILENCE_DB, num |-> 0, den |-> 1]
    ELSE [silent |-> FALSE, db |-> 0, num |-> ms.num, den |-> ms.den]

\* StreamingAudioProcessor._into_decibels for one segment: an empty segment
\* reads -60 dB before anything is computed, an all-zero one through the test
\* rms > 0.
Decibel(segment) ==
    IF Len(segment) = 0
    THEN [silent |-> TRUE, db |-> SILENCE_DB, num |-> 0, den |-> 1]
    ELSE Reading(MeanSquare(segment), TRUE)

\* a conversion without the test rms > 0
MutLegacyDecibel(segment) == Reading(MeanSquare(segment), FALSE)

\* AudioProcessor._into_decibels for one segment: no test of the size, the
\* mean of an empty segment is NaN and fails the test rms > 0.
LegacyDecibel(segment) == Reading(MeanSquare(segment), TRUE)

\* the readings of all segments of a block of frames (streaming)
IntoDecibels(frames) ==
    [i \in 1..SplitFrames |-> Decibel(ArraySplit(frames, SplitFrames, i - 1))]

\* the readings of all segments of a second of frames (legacy)
LegacyIntoDecibels(frames) ==
    [i \in 1..SplitFrames |-> LegacyDecibel(ArraySplit(frames, SplitFrames, i - 1))]

\* a segment offset that forgets the offset of the chunk
MutSegmentOffset(offset, i, len) == i * len

\* a chunk length that ignores what is left of the media
MutCurrentChunk(offset) == chunk_samples

\* current_chunk_duration = min(self.chunk_duration, remaining_duration)
CurrentChunk(offset) == Min2(chunk_samples, Len(audio) - offset)

\* segment_offset = offset + (i * len(chunk) / len(segments)) / sample_rate
SegmentOffset(offset, i, len) == offset * SplitFrames + i * len

\* current = self._pos / self.sample_rate - 1, after _pos advanced by one second
LegacyPosition(pos) == (pos - sample_rate) * SplitFrames

Amplitudes == {0, 1}
SampleRates == {2}
ChunkSeconds == {1}

StreamInit ==
    /\ \E n \in 0..MaxFrames : audio \in [1..n -> Amplitudes]
    /\ sample_rate \in SampleRates
    /\ \E cd \in ChunkSeconds : chunk_samples = cd * sample_rate
    /\ s_pc = "running"
    /\ s_offset = 0
    /\ chunk = <<>>
    /\ chunk_offset = 0
    /\ seg_idx = 0
    /\ s_items = <<>>
    /\ chunk_log = <<>>
    /\ l_pc = "running"
    /\ l_pos = 0
    /\ l_items = <<>>

StreamIdle ==
    /\ audio = <<>>
    /\ sample_rate = 1
    /\ chunk_samples = 1
    /\ s_pc = "idle"
    /\ s_offset = 0
    /\ chunk = <<>>
    /\ chunk_offset = 0
    /\ seg_idx = 0
    /\ s_items = <<>>
    /\ chunk_log = <<>>
    /\ l_pc = "idle"
    /\ l_pos = 0
    /\ l_items = <<>>

\* decibel_iter has yielded every segment of the chunk it holds and asks
\* stream_chunks for the next one
ConsumerAsks == chunk = <<>> \/ seg_idx >= SplitFrames

LegacyFrame == UNCHANGED <<l_pc, l_pos, l_items>>

\* a loader that decodes the next chunk while the last one is still in use
MutLoadChunk ==
    /\ s_pc = "running"
    /\ s_offset < Len(audio)
    /\ chunk' = Slice(audio, s_offset, CurrentChunk(s_offset))
    /\ chunk_offset' = s_offset
    /\ seg_idx' = 0
    /\ s_offset' = s_offset + CurrentChunk(s_offset)
    /\ chunk_log' = Append(chunk_log, [offset |-> s_offset, len |-> CurrentChunk(s_offset),
                                       ok |-> TRUE, held |-> Len(chunk) > 0 /\ ~ConsumerAsks])
    /\ UNCHANGED <<audio, sample_rate, chunk_samples, s_pc, s_items>>
    /\ LegacyFrame
    /\ UNCHANGED not_stream_vars

\* stream_chunks, one pass of the while loop in which librosa.load succeeds:
\* the chunk is yielded with its offset, and the offset advances when the
\* generator is resumed.
LoadChunk ==
    /\ s_pc = "running"
    /\ ConsumerAsks
    /\ s_offset < Len(audio)
    /\ chunk' = Slice(audio, s_offset, CurrentChunk(s_offset))
    /\ chunk_offset' = s_offset
    /\ seg_idx' = 0
    /\ s_offset' = s_offset + CurrentChunk(s_offset)
    /\ chunk_log' = Append(chunk_log, [offset |-> s_offset, len |-> CurrentChunk(s_offset),
                                       ok |-> TRUE, held |-> Len(chunk) > 0 /\ ~ConsumerAsks])
    /\ UNCHANGED <<audio, sample_rate, chunk_samples, s_pc, s_items>>
    /\ LegacyFrame
    /\ UNCHANGED not_stream_vars

\* a handler that logs the failure and forgets to advance the offset past
\* the whole chunk
MutDecodeFails ==
    /\ s_pc = "running"
    /\ ConsumerAsks
    /\ s_offset < Len(audio)
    /\ s_offset' = s_offset + 1
    /\ chunk_log' = Append(chunk_log, [offset |-> s_offset, len |-> CurrentChunk(s_offset),
                                       ok |-> FALSE, held |-> FALSE])
    /\ chunk' = <<>>
    /\ seg_idx' = 0
    /\ UNCHANGED <<audio, sample_rate, chunk_samples, s_pc, chunk_offset, s_items>>
    /\ LegacyFrame
    /\ UNCHANGED not_stream_vars

\* stream_chunks, one pass in which librosa.load raises: the except branch
\* logs, advances the offset by the chunk's duration and continues; nothing
\* is yielded.
DecodeFails ==
    /\ s_pc = "running"
    /\ ConsumerAsks
    /\ s_offset < Len(audio)
    /\ s_offset' = s_offset + CurrentChunk(s_offset)
    /\ chunk_log' = Append(chunk_log, [offset |-> s_offset, len |-> CurrentChunk(s_offset),
                                       ok |-> FALSE, held |-> FALSE])
    /\ chunk' = <<>>
    /\ seg_idx' = 0
    /\ UNCHANGED <<audio, sample_rate, chunk_samples, s_pc, chunk_offset, s_items>>
    /\ LegacyFrame
    /\ UNCHANGED not_stream_vars

\* decibel_iter yields the reading of the next segment of the chunk:
\* ([decibels[i]], segment_offset)
YieldItem ==
    /\ s_pc = "running"
    /\ chunk # <<>>
    /\ seg_idx < SplitFrames
    /\ s_items' = Append(s_items,
                         [readings |-> <<IntoDecibels(chunk)[seg_idx + 1]>>,
                          position |-> SegmentOffset(chunk_offset, seg_idx, Len(chunk))])
    /\ seg_idx' = seg_idx + 1
    /\ UNCHANGED <<audio, sample_rate, chunk_samples, s_pc, s_offset, chunk, chunk_offset,
                   chunk_log>>
    /\ LegacyFrame

\* the item is yielded to a consumer that is not modelled
YieldSegment == YieldItem /\ UNCHANGED not_stream_vars

\* `while offset < self.duration` fails: stream_chunks and decibel_iter end.
StreamEnds ==
    /\ s_pc = "running"
    /\ ConsumerAsks
    /\ s_offset >= Len(audio)
    /\ s_pc' = "done"
    /\ chunk' = <<>>
    /\ seg_idx' = 0
    /\ UNCHANGED <<audio, sample_rate, chunk_samples, s_offset, chunk_offset, s_items,
                   chunk_log>>
    /\ LegacyFrame
    /\ UNCHANGED not_stream_vars

StreamFrame ==
    UNCHANGED <<audio, sample_rate, chunk_samples, s_pc, s_offset, chunk, chunk_offset,
                seg_idx, s_items, chunk_log>>

\* AudioProcessor.decibel_iter, one pass: a second of frames is read, split
\* and converted, and (decibels, current) is yielded.
LegacyRead ==
    /\ l_pc = "running"
    /\ l_pos < Len(audio)
    /\ l_pos' = l_pos + sample_rate
    /\ l_items' = Append(l_items,
                         [readings |-> LegacyIntoDecibels(Slice(audio, l_pos, sample_rate)),
                          position |-> LegacyPosition(l_pos + sample_rate)])
    /\ UNCHANGED l_pc
    /\ StreamFrame
    /\ UNCHANGED not_stream_vars

\* frames.size == 0: break
LegacyEnds ==
    /\ l_pc = "running"
    /\ l_pos >= Len(audio)
    /\ l_pc' = "done"
    /\ UNCHANGED <<l_pos, l_items>>
    /\ StreamFrame
    /\ UNCHANGED not_stream_vars

StreamNext ==
    \/ LoadChunk
    \/ DecodeFails
    \/ YieldSegment
    \/ StreamEnds
    \/ LegacyRead
    \/ LegacyEnds

\* =====================================================================
\* Whole-file aggregates of the streaming processor: get_avg_decibel and
\* get_max_decibel, each a pass over stream_chunks of its own.
\* A decibel value 20 * log10(x) is kept by its argument x: the fraction
\* num / den, the floor 1e-10 ("floor"), or nothing for -infinity ("neg_inf").
\* =====================================================================
NEG_INF == [kind |-> "neg_inf", num |-> 0, den |-> 1]
FLOOR == [kind |-> "floor", num |-> 0, den |-> 1]
\* -60.0 = 20 * log10(1 / 1000)
MINUS_60 == [kind |-> "value", num |-> 1, den |-> 1000]

\* 20 * np.log10(max(x, 1e-10)) for x = num / den >= 0; every positive value
\* of the model is above 1e-10
LogFloored(num, den) ==
    IF num = 0 THEN FLOOR
    ELSE [kind |-> "value", num |-> num \div GCD(num, den), den |-> den \div GCD(num, den)]

\* a >= b for two decibel values
DbAtLeast(a, b) ==
    LET Rank(x) == IF x.kind = "neg_inf" THEN 0 ELSE IF x.kind = "floor" THEN 1 ELSE 2
    IN  IF a.kind = "value" /\ b.kind = "value"
        THEN a.num * b.den >= b.num * a.den
        ELSE Rank(a) >= Rank(b)

\* the offsets at which stream_chunks loads a chunk
ChunkOffsets == {o \in 0..(Len(audio) - 1) : o % chunk_samples = 0}

\* np.sqrt(np.mean(chunk ** 2)) of the chunk at an offset; the chunks of these
\* runs hold frames of one magnitude, so that the root is a whole number
ChunkRms(o) ==
    LET c  == Slice(audio, o, CurrentChunk(o))
        sq == SumSeq([i \in 1..Len(c) |-> c[i] * c[i]])
    IN  CHOOSE r \in 0..sq : r * r * Len(c) = sq

\* get_avg_decibel over the chunks that decoded
GetAvgDecibel(decoded) ==
    LET RECURSIVE Total(_)
        Total(os) == IF os = {} THEN 0
                     ELSE LET o == CHOOSE x \in os : TRUE
                          IN  ChunkRms(o) + Total(os \ {o})
        chunk_count == Cardinality(decoded)
    IN  IF chunk_count = 0 THEN MINUS_60
        ELSE LogFloored(Total(decoded), chunk_count)

\* get_max_decibel over the chunks that decoded: max_db starts at -np.inf
GetMaxDecibel(decoded) ==
    IF decoded = {} THEN NEG_INF
    ELSE LogFloored(CHOOSE r \in {ChunkRms(o) : o \in decoded} :
                        \A o \in decoded : r >= ChunkRms(o), 1)

\* =====================================================================
\* The index file: export() writes index.json, a reader loads it again.
\* A text is a sequence of characters.
\* =====================================================================
MaxIndexEntries == 3

DigitChars == <<"0", "1", "2", "3", "4", "5", "6", "7", "8", "9">>

DigitChar(d) == DigitChars[d + 1]

DigitValue(c) == CHOOSE d \in 0..9 : DigitChars[d + 1] = c

\* the decimal digits of a natural number, most significant first
RECURSIVE DecimalStr(_)
DecimalStr(n) ==
    IF n < 10 THEN <<DigitChar(n)>>
    ELSE Append(DecimalStr(n \div 10), DigitChar(n % 10))

\* str(int): json.dump writes an int key of a dict as this text
IntStr(n) == IF n < 0 THEN <<"-">> \o DecimalStr(-n) ELSE DecimalStr(n)

RECURSIVE ParseDigits(_)
ParseDigits(str) ==
    IF Len(str) = 0 THEN 0
    ELSE 10 * ParseDigits(SubSeq(str, 1, Len(str) - 1)) + DigitValue(str[Len(str)])

\* int(text)
ParseInt(str) ==
    IF Len(str) > 0 /\ str[1] = "-" THEN -ParseDigits(Tail(str)) ELSE ParseDigits(str)

TwoDigits(n) == <<DigitChar(n \div 10), DigitChar(n % 10)>>

\* str(datetime.timedelta(seconds=position)): "H:MM:SS", with the days in
\* front of it from one day on
TimedeltaStr(seconds) ==
    LET days == seconds \div 86400
        rest == seconds % 86400
        hh == rest \div 3600
        mm == (rest \div 60) % 60
        ss == rest % 60
        clock == DecimalStr(hh) \o <<":">> \o TwoDigits(mm) \o <<":">> \o TwoDigits(ss)
    IN  IF days = 0 THEN clock
        ELSE IntStr(days) \o (IF Abs(days) = 1 THEN <<" day, ">> ELSE <<" days, ">>) \o clock

\* the HighlightedMoment _add_highlight stored under the key p
Moment(cap, p) == [position |-> TimedeltaStr(p), decibel |-> cap[p].decibel]

\* the text json.dump writes for a float; the readings of the model are whole
\* decibels. The variant loses the sign.
MutFloatRepr(x) == DecimalStr(Abs(x)) \o <<".", "0">>

FloatRepr(x) == IntStr(x) \o <<".", "0">>

\* float(text) of such a text
ParseFloat(str) ==
    LET dot == CHOOSE i \in 1..Len(str) : str[i] = "."
    IN  ParseInt(SubSeq(str, 1, dot - 1))

\* common.json_encoder: a HighlightedMoment becomes the object
\* { position, decibel }
JsonEncoder(h) == [position |-> h.position, decibel |-> h.decibel]

\* json.dump(self._captured_result, f, indent=4, default=common.json_encoder):
\* one member per key text (a later equal key text replaces the earlier one)
JsonDump(cap) ==
    [k \in {IntStr(p) : p \in DOMAIN cap} |->
        LET p   == CHOOSE q \in DOMAIN cap : IntStr(q) = k
            obj == JsonEncoder(Moment(cap, p))
        IN  [position |-> obj.position, decibel |-> FloatRepr(obj.decibel)]]

\* json.load: a dict keyed by the key texts, numbers parsed
JsonLoad(content) ==
    [k \in DOMAIN content |->
        [position |-> content[k].position, decibel |-> ParseFloat(content[k].decibel)]]

\* positions of the captured events of a finished run (in seconds; some below a
\* minute, some past an hour, some past a day) and their loudness relative to
\* the threshold
IndexPositions == {0, 45, 3599, 3661, 86399, 90061}
IndexOffsets == {0, 3, 10}

CliIdle ==
    /\ index_file = [written |-> FALSE, content |-> <<>>]
    /\ results_loaded = [loaded |-> FALSE, content |-> <<>>]
    /\ report = <<>>
    /\ output_file = <<>>
    /\ ref_pc = "idle"
    /\ ref_avg_db = MINUS_60
    /\ ref_max_db = MINUS_60

\* A finished analysis with up to MaxIndexEntries captured events, at least
\* min_gap apart.
IndexInit ==
    /\ det_pc = "done"
    /\ use_streaming \in BOOLEAN
    /\ decibel_threshold \in Thresholds
    /\ \E cl \in DetectClipLengths :
          /\ start_point = StartPointOf(cl)
          /\ end_point = EndPointOf(cl)
    /\ \E ps \in SUBSET IndexPositions :
          /\ Cardinality(ps) <= MaxIndexEntries
          /\ \A a \in ps, b \in ps : a # b => Abs(a - b) >= MinGap(start_point, end_point)
          /\ captured \in [ps -> [decibel : {decibel_threshold + o : o \in IndexOffsets},
                                  tier : {"Sustained"}]]
          /\ position = IF ps = {} THEN 0
                        ELSE CHOOSE m \in ps : \A q \in ps : q <= m
    /\ rolling_window = <<>>
    /\ last_outcome = "none"
    /\ loud_used = 0
    /\ script = NoScript
    /\ CliIdle

\* export(): index.json is (re)written with the captured result.
Export ==
    /\ det_pc = "done"
    /\ ~index_file.written
    /\ index_file' = [written |-> TRUE, content |-> JsonDump(captured)]
    /\ UNCHANGED <<results_loaded, report, output_file, ref_pc, ref_avg_db, ref_max_db>>
    /\ UNCHANGED <<det_vars, clip_vars, not_cli_vars>>

\* check_analysis_results: results = json.load(f)
Reload ==
    /\ index_file.written
    /\ ~results_loaded.loaded
    /\ results_loaded' = [loaded |-> TRUE, content |-> JsonLoad(index_file.content)]
    /\ UNCHANGED <<index_file, report, output_file, ref_pc, ref_avg_db, ref_max_db>>
    /\ UNCHANGED <<det_vars, clip_vars, not_cli_vars>>

IndexNext == Export \/ Reload

\* ---------------------------------------------------------------------
\* Output paths of the clips (_generate_single_clip, before the command runs)
\* ---------------------------------------------------------------------
\* text.replace(old, new, 1): the first occurrence of the character
ReplaceFirst(str, old, new) ==
    IF \E i \in 1..Len(str) : str[i] = old
    THEN LET i == CHOOSE j \in 1..Len(str) : str[j] = old /\ \A k \in 1..(j - 1) : str[k] # old
         IN  [str EXCEPT ![i] = new]
    ELSE str

\* a variant that keeps only the minutes and seconds
MutClipTimestamp(pos) ==
    TwoDigits((pos \div 60) % 60) \o <<"m">> \o TwoDigits(pos % 60) \o <<"s">>

\* str(timedelta(seconds=int(position))).replace(':', 'h', 1).replace(':', 'm', 1) + 's'
ClipTimestamp(pos) ==
    Append(ReplaceFirst(ReplaceFirst(TimedeltaStr(pos), ":", "h"), ":", "m"), "s")

\* f"{highlight.decibel:.1f}dB" of a whole decibel value
DecibelStr(x) == IntStr(x) \o <<".", "0", "dB">>

\* what common.unique_id() may return: nothing is assumed of it, two calls may
\* return the same text
UniqueIds == {"a", "b"}

\* f'{timestamp}_{decibel_str}_{unique_id}.mp4' (in output_path)
OutputFile(pos, decibel, unique_id) ==
    ClipTimestamp(pos) \o <<"_">> \o DecibelStr(decibel) \o <<"_", unique_id, ".mp4">>

\* A pool worker builds the output path of one clip; the clips are taken in
\* any order.
NameClip(p) ==
    /\ det_pc = "done"
    /\ p \in DOMAIN captured
    /\ p \notin DOMAIN output_file
    /\ \E unique_id \in UniqueIds :
          output_file' = [q \in (DOMAIN output_file) \cup {p} |->
                             IF q = p THEN OutputFile(p, captured[p].decibel, unique_id)
                             ELSE output_file[q]]
    /\ UNCHANGED <<index_file, results_loaded, report, ref_pc, ref_avg_db, ref_max_db>>
    /\ UNCHANGED <<det_vars, clip_vars, not_cli_vars>>

NamesNext == \E p \in IndexPositions : NameClip(p)

\* =====================================================================
\* Range-based detection: AudioAnalysis.dynamic_crest_ceiling_algorithm on
\* the items of the legacy processor, one per second at positions 0, 1, 2, ...
\* =====================================================================
RangeIdle ==
    /\ t_from = 0
    /\ t_to = 0
    /\ loud_log = <<>>

RangeInit ==
    /\ det_pc = "running"
    /\ use_streaming = FALSE
    /\ decibel_threshold \in Thresholds
    /\ \E cl \in DetectClipLengths :
          /\ start_point = StartPointOf(cl)
          /\ end_point = EndPointOf(cl)
    /\ position = -1
    /\ rolling_window = <<>>
    /\ captured = <<>>
    /\ last_outcome = "none"
    /\ loud_used = 0
    /\ script = NoScript
    /\ RangeIdle

\* _add_dynamic_highlight: self._captured_result[start] = highlight
AddDynamicHighlight(cap, start, end, decibel) ==
    [p \in (DOMAIN cap) \cup {start} |->
        IF p = start THEN [start |-> start, end |-> end, decibel |-> decibel] ELSE cap[p]]

\* One iteration of `for point in data`.
RangeSample ==
    /\ det_pc = "running"
    /\ \E s \in SamplesOf(FALSE, decibel_threshold) :
          LET pos  == position + 1
              loud == s.max_db >= decibel_threshold
          IN  /\ pos <= MaxPosition
              /\ loud => loud_used < MaxLoudSamples /\ pos \notin QuietStretch
              /\ position' = pos
              /\ loud_used' = IF loud THEN loud_used + 1 ELSE loud_used
              /\ loud_log' = IF loud THEN Append(loud_log, pos) ELSE loud_log
              /\ IF ~loud
                 THEN UNCHANGED <<t_from, t_to, captured>>
                 ELSE IF t_from = 0
                 THEN /\ t_from' = pos
                      /\ UNCHANGED <<t_to, captured>>
                 ELSE /\ t_to' = pos
                      /\ captured' = IF AlreadyCaptured(captured, t_from, start_point, end_point)
                                     THEN captured
                                     ELSE AddDynamicHighlight(captured, t_from, pos, s.max_db)
                      /\ t_from' = 0
    /\ UNCHANGED <<det_pc, use_streaming, decibel_threshold, start_point, end_point,
                   rolling_window, last_outcome, script>>
    /\ UNCHANGED not_range_vars

\* decibel_iter is exhausted: the loop ends.
RangeEnds ==
    /\ det_pc = "running"
    /\ position >= 0
    /\ det_pc' = "done"
    /\ UNCHANGED <<use_streaming, decibel_threshold, start_point, end_point,
                   position, rolling_window, captured, last_outcome, loud_used, script>>
    /\ UNCHANGED range_vars
    /\ UNCHANGED not_range_vars

RangeNext == RangeSample \/ RangeEnds

\* =====================================================================
\* The streaming pipeline: streaming_crest_ceiling_algorithm consuming the
\* items of StreamingAudioProcessor.decibel_iter. One frame per second, so
\* every segment holds at most one frame and reads 0 dB or -60 dB.
\* =====================================================================
MaxDecodeFailures == 1

\* the seconds at which the media may be loud
PipelineLoud == {0, 1, 30, 33}
\* chunk_duration, in seconds
PipelineChunkSeconds == {2}

\* the reading as a decibel value: 10 * log10(num / den)
DbOf(reading) ==
    CASE reading.silent -> reading.db
      [] ~reading.silent /\ reading.num = reading.den -> 0

\* int(position) of an item
IntPosition(pos) == pos \div (sample_rate * SplitFrames)

DecodeFailures == Cardinality({i \in 1..Len(chunk_log) : ~chunk_log[i].ok})

PipelineInit ==
    /\ det_pc = "running"
    /\ use_streaming = TRUE
    /\ decibel_threshold \in Thresholds
    /\ \E cl \in DetectClipLengths :
          /\ start_point = StartPointOf(cl)
          /\ end_point = EndPointOf(cl)
    /\ position = -1
    /\ rolling_window = <<>>
    /\ captured = <<>>
    /\ last_outcome = "none"
    /\ loud_used = 0
    /\ script = NoScript
    /\ \E loud \in SUBSET PipelineLoud :
          audio = [i \in 1..(MaxPosition + 1) |-> IF (i - 1) \in loud THEN 1 ELSE 0]
    /\ sample_rate = 1
    /\ \E cd \in PipelineChunkSeconds : chunk_samples = cd * sample_rate
    /\ s_pc = "running"
    /\ s_offset = 0
    /\ chunk = <<>>
    /\ chunk_offset = 0
    /\ seg_idx = 0
    /\ s_items = <<>>
    /\ chunk_log = <<>>
    /\ l_pc = "idle"
    /\ l_pos = 0
    /\ l_items = <<>>

\* librosa.load raises for the next chunk (at most MaxDecodeFailures times)
PipelineDecodeFails == DecodeFailures < MaxDecodeFailures /\ DecodeFails

\* One pass of `for decibel_data, position in decibel_iter()`: the generator
\* yields the next item and the loop body consumes it.
PipelineStep ==
    /\ det_pc = "running"
    /\ YieldItem
    /\ LET item == s_items'[Len(s_items')]
       IN  Consume(IntPosition(item.position),
                   [max_db |-> DbOf(item.readings[1]), avg_db |-> DbOf(item.readings[1])])
    /\ UNCHANGED <<det_pc, use_streaming, decibel_threshold, start_point, end_point,
                   loud_used, script>>
    /\ UNCHANGED <<clip_vars, batch_vars, svc_vars, cli_vars, range_vars>>

PipelineNext ==
    \/ LoadChunk
    \/ PipelineDecodeFails
    \/ PipelineStep
    \/ StreamEnds

\* ---------------------------------------------------------------------
\* Reference analysis (_run_reference_analysis) with the streaming
\* processor: one frame per chunk
\* ---------------------------------------------------------------------
RefInit ==
    /\ \E n \in 0..MaxFrames : audio \in [1..n -> Amplitudes]
    /\ sample_rate = 1
    /\ chunk_samples = 1
    /\ s_pc = "idle"
    /\ s_offset = 0
    /\ chunk = <<>>
    /\ chunk_offset = 0
    /\ seg_idx = 0
    /\ s_items = <<>>
    /\ chunk_log = <<>>
    /\ l_pc = "idle"
    /\ l_pos = 0
    /\ l_items = <<>>
    /\ index_file = [written |-> FALSE, content |-> <<>>]
    /\ results_loaded = [loaded |-> FALSE, content |-> <<>>]
    /\ report = <<>>
    /\ output_file = <<>>
    /\ ref_pc = "start"
    /\ ref_avg_db = MINUS_60
    /\ ref_max_db = MINUS_60

\* avg_db = audio_processor.get_avg_decibel(): a pass over the chunks, some of
\* which may fail to decode
RefAvg ==
    /\ ref_pc = "start"
    /\ \E failed \in SUBSET ChunkOffsets : ref_avg_db' = GetAvgDecibel(ChunkOffsets \ failed)
    /\ ref_pc' = "avg_done"
    /\ UNCHANGED <<index_file, results_loaded, report, output_file, ref_max_db>>
    /\ UNCHANGED <<det_vars, clip_vars, not_cli_vars>>

\* max_db = audio_processor.get_max_decibel(): a second pass
RefMax ==
    /\ ref_pc = "avg_done"
    /\ \E failed \in SUBSET ChunkOffsets : ref_max_db' = GetMaxDecibel(ChunkOffsets \ failed)
    /\ ref_pc' = "done"
    /\ UNCHANGED <<index_file, results_loaded, report, output_file, ref_avg_db>>
    /\ UNCHANGED <<det_vars, clip_vars, not_cli_vars>>

RefNext == RefAvg \/ RefMax

\* =====================================================================
\* Specifications
\* =====================================================================
InitDetect == DetInit /\ ClipIdle /\ BatchIdle /\ SvcIdle /\ StreamIdle /\ CliIdle /\ RangeIdle

SpecDetect == InitDetect /\ [][DetNext]_vars

InitClips == ClipInit /\ BatchIdle /\ SvcIdle /\ StreamIdle /\ CliIdle /\ RangeIdle

SpecClips == InitClips /\ [][ClipNext]_vars

InitBatch == BatchInit /\ DetIdle /\ ClipIdle /\ SvcIdle /\ StreamIdle /\ CliIdle /\ RangeIdle

SpecBatch == InitBatch /\ [][BatchNext]_vars

InitScenario == ScenarioInit /\ ClipIdle /\ BatchIdle /\ SvcIdle /\ StreamIdle /\ CliIdle /\ RangeIdle

SpecScenario == InitScenario /\ [][ScenarioNext]_vars

\* process_batch called with a progress callback (as the batch command does)
InitProgress ==
    /\ batch_pc = "running"
    /\ max_workers \in 1..MaxBatchWorkers
    /\ ffmpeg_python \in BOOLEAN
    /\ \E n \in 1..MaxCallbackJobs : job = [j \in 1..n |-> QueuedJob]
    /\ results = <<>>
    /\ batch_completed = 0
    /\ progress_callback = TRUE
    /\ calls = <<>>
    /\ DetIdle /\ ClipIdle /\ SvcIdle /\ StreamIdle /\ CliIdle /\ RangeIdle

SpecProgress == InitProgress /\ [][BatchNext]_vars

InitStream == StreamInit /\ DetIdle /\ ClipIdle /\ BatchIdle /\ SvcIdle /\ CliIdle /\ RangeIdle

SpecStream == InitStream /\ [][StreamNext]_vars

\* the consumer keeps iterating: every for loop over the generators goes on
\* until they are exhausted
SpecStreamFair == SpecStream /\ WF_vars(StreamNext)

InitService == SvcInit /\ DetIdle /\ ClipIdle /\ BatchIdle /\ StreamIdle /\ CliIdle /\ RangeIdle

SpecService == InitService /\ [][SvcNext]_vars

\* every started worker thread is scheduled, and the calls it makes return
WorkerStep(t) ==
    \/ WorkerExtract(t)
    \/ WorkerExtractOk(t)
    \/ WorkerExtractFails(t)
    \/ WorkerFindHighlights(t)
    \/ WorkerFinally(t)

SpecServiceFair == SpecService /\ \A t \in 1..MaxThreads : WF_vars(WorkerStep(t))

InitIndex == IndexInit /\ ClipIdle /\ BatchIdle /\ SvcIdle /\ StreamIdle /\ RangeIdle

SpecIndex == InitIndex /\ [][IndexNext]_vars

SpecNames == InitIndex /\ [][NamesNext]_vars

InitRange == RangeInit /\ ClipIdle /\ BatchIdle /\ SvcIdle /\ StreamIdle /\ CliIdle

SpecRange == InitRange /\ [][RangeNext]_vars

InitPipeline == PipelineInit /\ ClipIdle /\ BatchIdle /\ SvcIdle /\ CliIdle /\ RangeIdle

SpecPipeline == InitPipeline /\ [][PipelineNext]_vars

InitReference == RefInit /\ DetIdle /\ ClipIdle /\ BatchIdle /\ SvcIdle /\ RangeIdle

SpecReference == InitReference /\ [][RefNext]_vars

\* ---------------------------------------------------------------------
\* C1: every two distinct captured events are at least
\* minGap = max(30, start_point + end_point) seconds apart, and a sample at
\* or above the threshold that lies within minGap of a captured event adds
\* no event and overwrites no existing key.
\* ---------------------------------------------------------------------
GapInvariant ==
    \A a \in DOMAIN captured, b \in DOMAIN captured :
        a # b => Abs(a - b) >= MinGap(start_point, end_point)

SuppressedSampleChangesNothing ==
    /\ \A p \in DOMAIN captured : p \in DOMAIN captured' /\ captured'[p] = captured[p]
    /\ (\E p \in DOMAIN captured : Abs(p - position') < MinGap(start_point, end_point))
          => captured' = captured

C1_GapBetweenEvents ==
    [](det_pc # "idle" => GapInvariant) /\ [][SuppressedSampleChangesNothing]_vars

\* two events are captured and the last sample, loud and within minGap of
\* one of them, was suppressed
C1_Witness ==
    /\ Cardinality(DOMAIN captured) >= 2
    /\ last_outcome = "suppressed"
    /\ \E p \in DOMAIN captured : position - p \in 1..5

\* ---------------------------------------------------------------------
\* C2: when clip generation is over, it has returned counts in which every
\* submitted clip is counted exactly once: completed + failed = highlights
\* found, whatever mix of exits, undersized outputs, per-task timeouts and
\* expiry of the overall batch timeout occurred.
\* ---------------------------------------------------------------------
C2_EveryClipCounted ==
    gen_pc \in {"returned", "raised"} =>
        /\ gen_pc = "returned"
        /\ completed_count + failed_count = Cardinality(DOMAIN captured)

\* ---------------------------------------------------------------------
\* C4: a clip task succeeds exactly when the trim process exited with
\* status 0 and the output file exists and is larger than 1024 bytes, and
\* the tallies count the collected tasks accordingly.
\* ---------------------------------------------------------------------
ExitZeroAndFileOk(p) ==
    /\ task[p].kind = "exit"
    /\ task[p].returncode = 0
    /\ task[p].size # ABSENT
    /\ task[p].size > 1024

C5_EndClampedToDuration ==
    \A p \in Positions :
        task[p].st # "queued" =>
            /\ task[p].to = Min2(media_duration, p + end_point)
            /\ task[p].to <= media_duration

TimedOut == {p \in Positions : task[p].kind = "timeout"}

TimeoutIsFailure ==
    /\ \A p \in TimedOut :
          /\ task[p].st = "done"
          /\ ~task[p].result
          /\ task[p].proc = "killed"
    /\ gen_pc # "idle" =>
          /\ failed_count >= Cardinality(TimedOut \cap Yielded)
          /\ completed_count <= Cardinality(Yielded \ TimedOut)
    /\ gen_pc = "returned" => TimedOut \subseteq Yielded

TimeoutTouchesOneTask ==
    \A p \in Positions \cap DOMAIN task' :
        (task[p].kind # "timeout" /\ task'[p].kind = "timeout") =>
            /\ \A q \in Positions \ {p} : task'[q] = task[q]
            /\ completed_count' = completed_count
            /\ failed_count' = failed_count

C10_TimeoutCountsAsFailure ==
    []TimeoutIsFailure /\ [][TimeoutTouchesOneTask]_vars

\* the run returned with one task timed out (counted failed) and another
\* task of the same video generated
C10_Witness ==
    /\ gen_pc = "returned"
    /\ TimedOut # {}
    /\ failed_count = Cardinality(TimedOut)
    /\ completed_count >= 1

\* ---------------------------------------------------------------------
\* C3: process_batch returns a map with exactly one entry per submitted
\* job, each 'completed' or 'failed' (failed entries carry the error text),
\* whichever jobs raised; no job's exception leaves process_batch, and the
\* jobs that did not raise are reported completed.
\* ---------------------------------------------------------------------
C3_OneEntryPerJob ==
    /\ batch_pc # "aborted"
    /\ batch_pc = "returned" =>
          /\ DOMAIN results = JobIds
          /\ batch_completed = Cardinality(JobIds)
          /\ \A j \in JobIds :
                /\ results[j].status \in {"completed", "failed"}
                /\ results[j].status = "completed" <=> job[j].outcome = "returned"
                /\ results[j].status = "failed" <=> job[j].outcome = "raised"
                /\ results[j].status = "failed" => results[j].error # "none"

\* a returned batch in which one job raised and a job submitted after it
\* completed
C3_Witness ==
    /\ batch_pc = "returned"
    /\ \E j \in JobIds, k \in JobIds :
          /\ j < k
          /\ results[j].status = "failed"
          /\ results[k].status = "completed"
          /\ job[k].found > 0

\* ---------------------------------------------------------------------
\* C7: at most max_workers jobs run at a time and each job has at most 4
\* trim processes in flight, so at most max_workers * 4 trims run at once.
\* ---------------------------------------------------------------------
C7_BoundedConcurrency ==
    batch_pc # "idle" =>
        /\ Cardinality(RunningJobs) <= max_workers
        /\ \A j \in JobIds : job[j].trims <= 4
        /\ TotalTrims <= max_workers * 4

\* both pools are full with work waiting: max_workers jobs run while a job
\* is queued, each running job has 4 trims alive and a clip task waiting
C7_Witness ==
    /\ Cardinality(RunningJobs) = max_workers
    /\ max_workers > 1
    /\ QueuedJobs # {}
    /\ \A j \in RunningJobs : job[j].trims = 4 /\ job[j].clip_q > 0
    /\ TotalTrims = max_workers * 4

\* ---------------------------------------------------------------------
\* C8: no operation of the per-video pipeline blocks indefinitely: while
\* the batch has not returned, some step of it can still be taken, even
\* when an external process hangs forever.
\* ---------------------------------------------------------------------
C8_NeverBlockedForever ==
    batch_pc = "running" => ENABLED BatchNext

\* ---------------------------------------------------------------------
\* C9: after a stop request on a running analysis, the stopped analysis
\* submits no new task (it starts no further external process or pool
\* task); what is already in flight may finish.
\* ---------------------------------------------------------------------
NoNewTaskAfterStop ==
    \A t \in ThreadIds :
        worker[t].stopped => worker'[t].launched = worker[t].launched

C9_NoSubmissionAfterStop == [][NoNewTaskAfterStop]_vars

\* ---------------------------------------------------------------------
\* C11: the progress callback is invoked once per job, only after that job
\* has finished, with completedCount 1, 2, ..., N in successive invocations,
\* totalCount = N and the result equal to the entry stored for that job in
\* the returned map; the invocations follow the order of completion.
\* ---------------------------------------------------------------------
CallsAreInOrder ==
    \A i \in 1..Len(calls) :
        /\ calls[i].completed = i
        /\ calls[i].total = Cardinality(JobIds)
        /\ calls[i].job_id \in JobIds
        /\ job[calls[i].job_id].phase = "collected"
        /\ calls[i].job_id \in DOMAIN results
        /\ calls[i].result = results[calls[i].job_id]
        /\ \A k \in 1..Len(calls) : calls[k].job_id = calls[i].job_id => k = i

CallFollowsCompletion ==
    Len(calls') > Len(calls) =>
        /\ Len(calls') = Len(calls) + 1
        /\ job[calls'[Len(calls')].job_id].phase \in {"returned", "raised"}
        /\ \A i \in 1..Len(calls) : calls'[i] = calls[i]

C11_CallbackOncePerJob ==
    /\ [](progress_callback =>
            /\ CallsAreInOrder
            /\ Len(calls) = batch_completed
            /\ batch_pc = "returned" =>
                  {calls[i].job_id : i \in 1..Len(calls)} = JobIds)
    /\ [][CallFollowsCompletion]_vars

\* a returned batch of two jobs in which the job submitted second finished
\* and was reported first, the other one failed
C11_Witness ==
    /\ batch_pc = "returned"
    /\ Len(calls) = 2
    /\ calls[1].job_id = 2
    /\ calls[1].result.status = "completed"
    /\ calls[2].job_id = 1
    /\ calls[2].result.status = "failed"

\* ---------------------------------------------------------------------
\* C12: for the same audio the legacy and the streaming decibel_iter yield
\* the same sequence of loudness readings: as many items, at the same
\* positions, with the same values.
\* ---------------------------------------------------------------------
C12_SameReadings ==
    (s_pc = "done" /\ l_pc = "done" /\ \A i \in 1..Len(chunk_log) : chunk_log[i].ok) =>
        /\ Len(s_items) = Len(l_items)
        /\ \A i \in 1..Len(s_items) :
              /\ s_items[i].position = l_items[i].position
              /\ s_items[i].readings = l_items[i].readings

\* ---------------------------------------------------------------------
\* C13: stream_chunks terminates and works through chunks at offsets
\* 0, C, 2C, ... in strictly increasing order, each C long except a possibly
\* shorter last one, so that the chunks tile [0, D) without overlap or gap.
\* ---------------------------------------------------------------------
ChunksTile ==
    /\ \A i \in 1..Len(chunk_log) :
          /\ chunk_log[i].offset = (i - 1) * chunk_samples
          /\ chunk_log[i].len > 0
          /\ chunk_log[i].len <= chunk_samples
          /\ chunk_log[i].offset + chunk_log[i].len <= Len(audio)
          /\ i < Len(chunk_log) =>
                /\ chunk_log[i].len = chunk_samples
                /\ chunk_log[i + 1].offset = chunk_log[i].offset + chunk_log[i].len
    /\ s_pc = "done" =>
          IF Len(audio) = 0 THEN chunk_log = <<>>
          ELSE /\ chunk_log # <<>>
               /\ chunk_log[Len(chunk_log)].offset + chunk_log[Len(chunk_log)].len = Len(audio)

C13_ChunksTileTheMedia ==
    /\ [](s_pc # "idle" => ChunksTile)
    /\ (s_pc = "running") ~> (s_pc = "done")

\* a failure-free stream has ended after three chunks, the last one shorter
C13_Witness ==
    /\ s_pc = "done"
    /\ Len(chunk_log) = 3
    /\ \A i \in 1..3 : chunk_log[i].ok
    /\ chunk_log[3].len < chunk_samples
    /\ Len(s_items) = 3 * SplitFrames

\* ---------------------------------------------------------------------
\* C14: a chunk whose decoding fails is skipped, the offset still advances
\* by that chunk's duration, and every later chunk is yielded with the
\* offset it has in a failure-free run; the failure never ends the stream.
\* ---------------------------------------------------------------------
FailureSkipsOneChunk ==
    (Len(chunk_log') > Len(chunk_log) /\ ~chunk_log'[Len(chunk_log')].ok) =>
        /\ s_offset' = s_offset + Min2(chunk_samples, Len(audio) - s_offset)
        /\ s_items' = s_items
        /\ s_pc' = "running"

LaterChunksKeepTheirOffsets ==
    /\ \A i \in 1..Len(chunk_log) : chunk_log[i].offset = (i - 1) * chunk_samples
    /\ \A i \in 1..Len(s_items) :
          \E k \in 1..Len(chunk_log), j \in 0..(SplitFrames - 1) :
              /\ chunk_log[k].ok
              /\ s_items[i].position = (k - 1) * chunk_samples * SplitFrames + j * chunk_log[k].len
    /\ s_pc = "done" =>
          /\ Len(chunk_log) * chunk_samples >= Len(audio)
          /\ Len(s_items) = SplitFrames * Cardinality({k \in 1..Len(chunk_log) : chunk_log[k].ok})

C14_DecodeFailureSkipsChunk ==
    /\ [](s_pc # "idle" => LaterChunksKeepTheirOffsets)
    /\ [][FailureSkipsOneChunk]_vars

\* the first chunk failed to decode, the second was yielded at its usual
\* offset, and the stream ran to its end
C14_Witness ==
    /\ s_pc = "done"
    /\ Len(chunk_log) >= 2
    /\ ~chunk_log[1].ok
    /\ chunk_log[2].ok
    /\ \E i \in 1..Len(s_items) : s_items[i].position = chunk_samples * SplitFrames

\* ---------------------------------------------------------------------
\* C15: the streaming processor works on one decoded chunk at a time: the
\* next chunk is decoded only after the consumer has been through every
\* segment of the one before and has asked for the next.
\* ---------------------------------------------------------------------
DecodeOnlyWhenAsked ==
    (Len(chunk_log') > Len(chunk_log) /\ chunk_log'[Len(chunk_log')].ok) =>
        (chunk = <<>> \/ seg_idx = SplitFrames)

IsSustained == Cardinality({i \in 1..Len(rolling_window') :
                               rolling_window'[i].max_db >= decibel_threshold}) >= 3

IsSpike == rolling_window'[Len(rolling_window')].max_db >= decibel_threshold + 3

IsDynamic ==
    /\ Len(rolling_window') >= 3
    /\ rolling_window'[Len(rolling_window')].max_db * Len(rolling_window')
          >= SumSeq([i \in 1..Len(rolling_window') |-> rolling_window'[i].avg_db])
             + 6 * Len(rolling_window')

IsCandidate ==
    /\ rolling_window'[Len(rolling_window')].max_db >= decibel_threshold
    /\ \A p \in DOMAIN captured : Abs(p - position') >= Max2(30, start_point + end_point)

OneTierPerSample ==
    (det_pc = "running" /\ det_pc' = "running") =>
        /\ DOMAIN captured \subseteq DOMAIN captured'
        /\ (DOMAIN captured') \ (DOMAIN captured) \subseteq {position'}
        /\ rolling_window'[Len(rolling_window')].max_db < decibel_threshold =>
              (last_outcome' = "below" /\ captured' = captured)
        /\ last_outcome' = "Sustained" <=> (IsCandidate /\ IsSustained)
        /\ last_outcome' = "Spike" <=> (IsCandidate /\ ~IsSustained /\ IsSpike)
        /\ last_outcome' = "Dynamic" <=>
              (IsCandidate /\ ~IsSustained /\ ~IsSpike /\ IsDynamic)
        /\ last_outcome' \in {"Sustained", "Spike", "Dynamic"} <=> captured' # captured
        /\ captured' # captured =>
              /\ position' \notin DOMAIN captured
              /\ captured'[position'].tier = last_outcome'
              /\ captured'[position'].decibel = rolling_window'[Len(rolling_window')].max_db

C16_FirstMatchingTierWins == [][OneTierPerSample]_vars

\* a Sustained event whose sample also passed the spike test, and a later
\* Dynamic event
C16_Witness ==
    /\ last_outcome = "Dynamic"
    /\ \E p \in DOMAIN captured :
          /\ captured[p].tier = "Sustained"
          /\ captured[p].decibel >= decibel_threshold + 3

\* ---------------------------------------------------------------------
\* C17: one sample per second over 120 s, threshold -10 dB, two isolated
\* loud spans of 3 s starting at t = 10 s and t = 70 s: the detector emits
\* exactly 2 events, both through the Sustained tier, one within 10-13 s and
\* one within 70-73 s, for every loudness of the spans at or above the
\* threshold.
\* ---------------------------------------------------------------------
C17_TwoSustainedEvents ==
    (det_pc = "done" /\ script.on /\ script.starts = {10, 70}
        /\ decibel_threshold = -10) =>
        /\ Cardinality(DOMAIN captured) = 2
        /\ \E p \in DOMAIN captured : p >= 10 /\ p <= 13
        /\ \E p \in DOMAIN captured : p >= 70 /\ p <= 73
        /\ \A p \in DOMAIN captured : captured[p].tier = "Sustained"

\* ---------------------------------------------------------------------
\* C18: a single sample at threshold + 5 dB with nothing before it in the
\* rolling window and only samples below the threshold after it yields
\* exactly one event, through the Spike branch.
\* ---------------------------------------------------------------------
C18_SingleSpike ==
    (script.on /\ script.starts = {0} /\ script.loud = 5 /\ position >= 0) =>
        /\ DOMAIN captured = {0}
        /\ captured[0].tier = "Spike"
        /\ captured[0].decibel = decibel_threshold + 5

\* the run is over: the spike at t = 0 was followed by 119 quiet samples
C18_Witness ==
    /\ det_pc = "done"
    /\ script.on
    /\ script.starts = {0}
    /\ script.loud = 5
    /\ script.quiet = -1
    /\ position = ScenarioSeconds - 1
    /\ Cardinality(DOMAIN captured) = 1

\* ---------------------------------------------------------------------
\* C19: the index file written by export and loaded again gives back the
\* captured set: one entry per captured event, under a key text from which
\* int() recovers the event's position (distinct events have distinct keys),
\* and each entry keeps the event's position text, which reads H:MM:SS below
\* one day, and its decibel value.
\* ---------------------------------------------------------------------
\* the text is H:MM:SS: digits, a colon, two digits, a colon, two digits
IsClock(str) ==
    LET n == Len(str)
        IsDigit(c) == \E d \in 0..9 : DigitChars[d + 1] = c
    IN  /\ n >= 7
        /\ str[n - 2] = ":"
        /\ str[n - 5] = ":"
        /\ \A i \in 1..n : i \notin {n - 2, n - 5} => IsDigit(str[i])

RecoveredPositions(content) == {ParseInt(k) : k \in DOMAIN content}

RoundTrip(content) ==
    /\ Cardinality(DOMAIN content) = Cardinality(DOMAIN captured)
    /\ RecoveredPositions(content) = DOMAIN captured
    /\ \A k \in DOMAIN content :
          /\ content[k].position = Moment(captured, ParseInt(k)).position
          /\ ParseInt(k) < 86400 => IsClock(content[k].position)
          /\ content[k].decibel = captured[ParseInt(k)].decibel

C19_IndexRoundTrip ==
    /\ index_file.written =>
          /\ Cardinality(DOMAIN index_file.content) = Cardinality(DOMAIN captured)
          /\ RecoveredPositions(index_file.content) = DOMAIN captured
    /\ results_loaded.loaded => RoundTrip(results_loaded.content)

\* a file with three events was loaded again: one of them past an hour, one of
\* them below the minute, with negative readings
C19_Witness ==
    /\ results_loaded.loaded
    /\ Cardinality(DOMAIN captured) = 3
    /\ Cardinality(DOMAIN results_loaded.content) = 3
    /\ \E p \in DOMAIN captured : p >= 3600 /\ captured[p].decibel < 0
    /\ \E p \in DOMAIN captured : p < 60

\* ---------------------------------------------------------------------
\* C20: a run whose detector captured no event ends without an error and
\* without a trimming process, generate_all_highlights returning (0, 0); and
\* the command prints "No highlights found" only for such a run, not for a
\* run that found highlights and generated no clip.
\* ---------------------------------------------------------------------
Reported(line) == \E i \in 1..Len(report) : report[i] = line

ZeroEventsRunIsQuiet ==
    (DOMAIN captured = {} /\ gen_pc # "start") =>
        /\ gen_pc = "returned"
        /\ completed_count = 0
        /\ failed_count = 0
        /\ DOMAIN task = {}

NoHighlightsOnlyWhenNone ==
    Reported("No highlights found") => DOMAIN captured = {}

C20_NoHighlightsReport == ZeroEventsRunIsQuiet /\ NoHighlightsOnlyWhenNone

\* ---------------------------------------------------------------------
\* C21: a trimming tool that cannot be started is fatal for the whole run:
\* the run does not return its counts as a normal completion, and no clip
\* whose trim could not be started is counted as a failed clip.
\* ---------------------------------------------------------------------
CouldNotStart == {p \in DOMAIN task : task[p].kind = "spawn_error"}

C21_DependencyErrorIsFatal ==
    CouldNotStart # {} =>
        /\ gen_pc # "returned"
        /\ \A p \in CouldNotStart : ~task[p].yielded

\* ---------------------------------------------------------------------
\* C22: within one run no two clips get the same output path, in whatever
\* order the clips are taken and whatever the unique suffixes are.
\* ---------------------------------------------------------------------
C22_DistinctOutputPaths ==
    \A a \in DOMAIN output_file, b \in DOMAIN output_file :
        a # b => output_file[a] # output_file[b]

\* three clips were named, two of them with the same decibel value and the
\* same suffix, at positions that agree in minutes and seconds
C22_Witness ==
    /\ DOMAIN output_file = DOMAIN captured
    /\ Cardinality(DOMAIN output_file) = 3
    /\ \E a \in DOMAIN output_file, b \in DOMAIN output_file :
          /\ a # b
          /\ a % 3600 = b % 3600
          /\ captured[a].decibel = captured[b].decibel
          /\ output_file[a][Len(output_file[a]) - 1] = output_file[b][Len(output_file[b]) - 1]

\* ---------------------------------------------------------------------
\* C23: the readings of a chunk (streaming) or of a second (legacy) whose
\* samples are all zero are exactly -60.0, not -infinity and not NaN, and so
\* is the reading of a segment that holds no sample.
\* ---------------------------------------------------------------------
SilentReading == [silent |-> TRUE, db |-> SILENCE_DB, num |-> 0, den |-> 1]

AllZero(frames) == \A i \in 1..Len(frames) : frames[i] = 0

\* the item decibel_iter yielded last, against the chunk it was made from
StreamingSilence ==
    (chunk # <<>> /\ seg_idx > 0) =>
        LET segment == ArraySplit(chunk, SplitFrames, seg_idx - 1)
            reading == s_items[Len(s_items)].readings[1]
        IN  (AllZero(chunk) \/ Len(segment) = 0) => reading = SilentReading

\* the item the legacy decibel_iter yielded last, against the second it read
LegacySilence ==
    Len(l_items) > 0 =>
        LET frames == Slice(audio, l_pos - sample_rate, sample_rate)
            readings == l_items[Len(l_items)].readings
        IN  \A i \in 1..SplitFrames :
                (AllZero(frames) \/ Len(ArraySplit(frames, SplitFrames, i - 1)) = 0)
                    => readings[i] = SilentReading

C23_SilenceReadsMinus60 == StreamingSilence /\ LegacySilence

\* an all-zero media whose last second holds a single frame: the legacy
\* processor has converted a segment without samples, the streaming one has
\* yielded the reading of an all-zero chunk
C23_Witness ==
    /\ Len(audio) = 3
    /\ AllZero(audio)
    /\ l_pc = "done"
    /\ Len(l_items) = 2
    /\ chunk # <<>>
    /\ seg_idx > 0
    /\ s_items[Len(s_items)].readings[1] = SilentReading

\* ---------------------------------------------------------------------
\* C24: a candidate sample (at or above the threshold, not gap-suppressed) is
\* classified Sustained exactly when the last 3 entries of the rolling window,
\* the sample itself and the two before it, are all at or above the threshold;
\* older loud entries do not count.
\* ---------------------------------------------------------------------
LastEntriesLoud(w, thr) ==
    /\ Len(w) >= SUSTAINED_THRESHOLD_DURATION
    /\ \A i \in (Len(w) - SUSTAINED_THRESHOLD_DURATION + 1)..Len(w) : w[i].max_db >= thr

C24_SustainedIsLastThree ==
    (last_outcome \in Tiers \cup {"none"}) =>
        (last_outcome = "Sustained" <=> LastEntriesLoud(rolling_window, decibel_threshold))

\* ---------------------------------------------------------------------
\* C25: in range-based mode the first sample at or above the threshold opens
\* a span, at position 0 as well, and the next one closes it; each span gives
\* one range event (start, end) with start < end, unless its start lies
\* within minGap of an event captured before, when the span is dropped.
\* ---------------------------------------------------------------------
\* the range events (start -> end) of the loud positions log[from], log[from + 1],
\* ..., paired in order, after the events of cap
RECURSIVE RangesOf(_, _, _)
RangesOf(log, from, cap) ==
    IF from + 1 > Len(log) THEN cap
    ELSE LET start == log[from]
             end   == log[from + 1]
             next  == IF \E e \in DOMAIN cap : Abs(e - start) < MinGap(start_point, end_point)
                      THEN cap
                      ELSE [p \in (DOMAIN cap) \cup {start} |-> IF p = start THEN end ELSE cap[p]]
         IN  RangesOf(log, from + 2, next)

C25_OneRangePerSpan ==
    /\ DOMAIN captured = DOMAIN RangesOf(loud_log, 1, <<>>)
    /\ \A start \in DOMAIN captured :
          /\ captured[start].start = start
          /\ captured[start].end = RangesOf(loud_log, 1, <<>>)[start]
          /\ captured[start].start < captured[start].end

\* ---------------------------------------------------------------------
\* C26: within one video the items reach the detector in non-decreasing
\* order of their timestamps, and every newly captured position is greater
\* than every position captured before, also after chunks were skipped for
\* decode failures.
\* ---------------------------------------------------------------------
ItemsInOrder ==
    \A i \in 1..(Len(s_items) - 1) : s_items[i].position <= s_items[i + 1].position

CapturedInOrder ==
    /\ \A q \in DOMAIN captured : q \in DOMAIN captured' /\ captured'[q] = captured[q]
    /\ \A p \in (DOMAIN captured') \ (DOMAIN captured) :
          /\ p = IntPosition(s_items'[Len(s_items')].position)
          /\ \A q \in DOMAIN captured : p > q

C26_EventsInTimestampOrder == []ItemsInOrder /\ [][CapturedInOrder]_vars

\* a second event was captured after a chunk had been skipped between the two
C26_Witness ==
    /\ Cardinality(DOMAIN captured) = 2
    /\ \E i \in 1..Len(chunk_log) :
          /\ ~chunk_log[i].ok
          /\ \E a \in DOMAIN captured, b \in DOMAIN captured :
                a * sample_rate < chunk_log[i].offset /\ chunk_log[i].offset < b * sample_rate

\* ---------------------------------------------------------------------
\* C27: the clips planned for two distinct events a < b of one run, with the
\* start_point / end_point the detection ran with, do not overlap in source
\* time: the later clip starts no earlier than the earlier clip ends.
\* ---------------------------------------------------------------------
C27_PlannedClipsDisjoint ==
    \A a \in DOMAIN captured, b \in DOMAIN captured :
        a < b =>
            /\ a + end_point <= b - start_point
            /\ ClipEnd(a, end_point, media_duration) <= ClipStart(b, start_point)

\* two events exactly start_point + end_point = 32 s apart: the clips touch
C27_Witness ==
    /\ start_point + end_point = 32
    /\ \E a \in DOMAIN captured, b \in DOMAIN captured :
          /\ b - a = 32
          /\ ClipEnd(a, end_point, media_duration) = ClipStart(b, start_point)

\* ---------------------------------------------------------------------
\* C28: for every input of the streaming processor, also one of which no
\* chunk decodes, get_max_decibel() is finite and at least get_avg_decibel().
\* ---------------------------------------------------------------------
C28_AggregatesConsistent ==
    ref_pc = "done" =>
        /\ ref_max_db.kind # "neg_inf"
        /\ DbAtLeast(ref_max_db, ref_avg_db)

\* ---------------------------------------------------------------------
\* C29: under any interleaving of start_highlight_analysis, stop_analysis and
\* the end of worker threads, at most one highlight-analysis worker is
\* running at a time: a start request made while a worker started before is
\* alive starts no thread.
\* ---------------------------------------------------------------------
C29_AtMostOneWorker == Cardinality(Alive) <= 1

\* ---------------------------------------------------------------------
\* C30: every highlight analysis that was started sets is_analyzing back to
\* False when its worker ends, by an exception or not, every worker does
\* end, and is_analyzing is True only while a worker started by
\* start_highlight_analysis is running.
\* ---------------------------------------------------------------------
AnalyzingOnlyWhileRunning ==
    is_analyzing => current_analysis_thread \in Alive

WorkerEndResets ==
    \A t \in ThreadIds :
        (worker[t].pc # "dead" /\ worker'[t].pc = "dead") => ~is_analyzing'

====
